---- MODULE Spec2Model ----
(***************************************************************************)
(* godsvagn: an APT repository service.                                    *)
(*                                                                         *)
(*   Spec       the upload service (crates/godsvagn-server): concurrent    *)
(*              /upload and /regenerate requests, the background writer    *)
(*              thread of each upload, the generator subprocess and the    *)
(*              swap of the live tree.                                     *)
(*   GenSpec    the generator core (crates/indexgen, crates/package,       *)
(*              crates/filemeta): generate_files over a package list.      *)
(*   ParseSpec  the control-file parser (crates/parsedeb): parse_control,  *)
(*              one loop iteration per step.                               *)
(*                                                                         *)
(* Text is a sequence of characters; a character is a one-character string *)
(* or, for a word without structural characters, the word itself.          *)
(***************************************************************************)
EXTENDS Integers, Sequences, FiniteSets, TLC

VARIABLES
    \* ---- upload service ----
    lock,       \* file_ops_pending: "free" or the request holding the guard
    hpc,        \* upload handler: position of each upload future
    wpc,        \* background writer thread of each upload: position
    arch,       \* the archive each upload request carries, and its query
    bodyLeft,   \* chunks the body stream has not yet yielded
    chan,       \* mpsc channel: number of chunks buffered
    txAlive,    \* bytes_tx not yet dropped
    rxAlive,    \* bytes_rx not yet dropped
    tmpLen,     \* chunks the writer has written to its temporary file
    outVal,     \* oneshot channel: the writer's result, "none" before it
    resp,       \* response of each upload request, "none" before it
    debDir,     \* deb_directory: path -> "absent" or the stored file
    rpc,        \* regenerate handler: position of each regenerate future
    rresp,      \* response of each regenerate request
    outTmp,     \* output_tmp of each regeneration
    scratch,    \* to_delete of each regeneration
    live,       \* repo_directory: "absent" or the tree at that path
    repogen,    \* server.repogen_command
    \* ---- generator core ----
    packages,   \* the package list handed to generate_files
    runs,       \* the results of the runs of generate_files so far
    start_paths, \* the input path of each package of the list
    pool,       \* --output-dir: the package files copied there, by path
    \* ---- control-file parser ----
    input,      \* the text handed to parse_control
    idx,        \* the byte offset of the next character
    pstate,     \* ParseState
    output,     \* the IndexMap built so far, as a sequence of <<key, value>>
    presult,    \* Running, or the value parse_control returned
    \* ---- archive reader and validation ----
    deb,        \* the .deb handed to deb_to_control: its ar members
    raw,        \* what parse_debfile returned
    control     \* what get_control returned

svars == <<lock, hpc, wpc, arch, bodyLeft, chan, txAlive, rxAlive, tmpLen,
           outVal, resp, debDir, rpc, rresp, outTmp, scratch, live, repogen>>
gvars == <<packages, runs, start_paths, pool>>
pvars == <<input, idx, pstate, output, presult>>
dvars == <<deb, raw, control>>
vars == <<svars, gvars, pvars, dvars>>

\* ------------------------------------------------------------------ bounds

MaxChunks == 2

\* The requests, numbered in the order they arrive: /upload requests 1 and 2,
\* /regenerate request 3.
Uploads == {1, 2}
Regens == {3}

\* --------------------------------------------------- upload service: data

ChannelCapacity == 50

Names == {"a"}
Versions == {"1"}
ArchNames == {"amd64", "arm64"}

\* An uploaded .deb: n body chunks, of which the first ctl hold the ar members
\* up to the end of the control tar; valid says whether its control file is
\* extracted, parsed and validated; the three fields are those of the control
\* file. ignore_exists is the request's query parameter: it is read at line
\* 208 only, and HandlerAwait draws it there.
Archives ==
    {a \in [n : {MaxChunks}, ctl : 1..MaxChunks, valid : BOOLEAN,
            package : Names, version : Versions, architecture : ArchNames,
            ignore_exists : {FALSE}] : ~a.valid => a.ctl = 1}

NoArchive ==
    [n |-> 1, ctl |-> 1, valid |-> FALSE, package |-> "a", version |-> "1",
     architecture |-> "amd64", ignore_exists |-> FALSE]

DebToControlAcceptsInvalid(a, m) ==
    IF m < a.ctl THEN [err |-> "InvalidRead"]
    ELSE [err |-> "none", package |-> a.package, version |-> a.version,
          architecture |-> a.architecture]

\* deb_to_control(&work_file) on a temporary file holding the first m chunks
\* of archive a: the ar and tar readers stop at the control member, the rest
\* of the file is not read.
DebToControl(a, m) ==
    IF m < a.ctl THEN [err |-> "InvalidRead"]
    ELSE IF ~a.valid THEN [err |-> "DebParse"]
    ELSE [err |-> "none", package |-> a.package, version |-> a.version,
          architecture |-> a.architecture]

\* RequiredFields::from_map: the package, version and architecture of a
\* validated control file.
RequiredFieldsFromMap(values) ==
    [package |-> values.package, version |-> values.version,
     architecture |-> values.architecture]

\* format!("{architecture}/{name}_{version}_{architecture}.deb")
OutfilePath(f) ==
    f.architecture \o "/" \o f.package \o "_" \o f.version \o "_"
        \o f.architecture \o ".deb"

DebPaths ==
    {OutfilePath([package |-> n, version |-> v, architecture |-> a]) :
        n \in Names, v \in Versions, a \in ArchNames}

\* A path of deb_directory holds no file, or the file an upload created
\* there, with the number of body chunks copied into it so far.
NoFile == [by |-> 0, len |-> 0]
Exists(file) == file.by # 0

\* The files of deb_directory the generator can read as packages.
InputsOk(dir) ==
    \A p \in DebPaths :
        Exists(dir[p]) => DebToControl(arch[dir[p].by], dir[p].len).err = "none"

\* A directory path: nothing there, an empty directory, or a repository tree.
Absent == [kind |-> "absent"]
EmptyDir == [kind |-> "empty"]
OldTree == [kind |-> "tree", by |-> 0, pool |-> {}]

\* The tree a generator run started by regeneration r writes from dir.
Tree(r, dir) ==
    [kind |-> "tree", by |-> r, pool |-> {p \in DebPaths : Exists(dir[p])}]

\* The flags regenerate passes to the generator: --config, --output-dir,
\* --input-dir, --keyfile, and no --overwrite.
ServerPassesOverwrite == FALSE

\* godsvagn-repogen main: the exit status, from the --overwrite switch,
\* whether --output-dir exists, and whether every input file reads as a
\* package.
RepogenMain(overwrite, outputDirExists, inputsOk) ==
    IF ~overwrite /\ outputDirExists THEN "failure"
    ELSE IF ~inputsOk THEN "failure"
    ELSE "success"

\* server.repogen_command: the generator of this repository (the default), or
\* another command the operator configured.
RepogenCommands == {"godsvagn-repogen", "other"}

\* The exit statuses the configured command can have.
ExitStatuses(r) ==
    IF repogen = "godsvagn-repogen"
    THEN {RepogenMain(ServerPassesOverwrite, outTmp[r] # Absent,
                      InputsOk(debDir))}
    ELSE {"success", "failure"}

\* ------------------------------------------------ upload service: actions

ServiceInit ==
    /\ lock = 0
    /\ hpc = [u \in Uploads |-> "idle"]
    /\ wpc = [u \in Uploads |-> "none"]
    /\ arch = [u \in Uploads |-> NoArchive]
    /\ bodyLeft = [u \in Uploads |-> 0]
    /\ chan = [u \in Uploads |-> 0]
    /\ txAlive = [u \in Uploads |-> FALSE]
    /\ rxAlive = [u \in Uploads |-> FALSE]
    /\ tmpLen = [u \in Uploads |-> 0]
    /\ outVal = [u \in Uploads |-> "none"]
    /\ resp = [u \in Uploads |-> "none"]
    /\ debDir = [p \in DebPaths |-> NoFile]
    /\ rpc = [r \in Regens |-> "idle"]
    /\ rresp = [r \in Regens |-> "none"]
    /\ outTmp = [r \in Regens |-> Absent]
    /\ scratch = [r \in Regens |-> Absent]
    /\ live = OldTree

\* upload, lines 189-202: the oneshot and the byte channel are created and
\* the writer thread is spawned.
UploadStart(u, a) ==
    /\ hpc[u] = "idle"
    /\ \A v \in Uploads : v < u => hpc[v] # "idle"
    /\ hpc' = [hpc EXCEPT ![u] = "next"]
    /\ wpc' = [wpc EXCEPT ![u] = "tmpfile"]
    /\ arch' = [arch EXCEPT ![u] = a]
    /\ bodyLeft' = [bodyLeft EXCEPT ![u] = a.n]
    /\ txAlive' = [txAlive EXCEPT ![u] = TRUE]
    /\ rxAlive' = [rxAlive EXCEPT ![u] = TRUE]
    /\ UNCHANGED <<lock, chan, tmpLen, outVal, resp, debDir, rpc, rresp,
                   outTmp, scratch, live, repogen,
                   gvars, pvars, dvars>>

\* body_stream.next() yields the next chunk.
HandlerNextChunk(u) ==
    /\ hpc[u] = "next"
    /\ bodyLeft[u] > 0
    /\ bodyLeft' = [bodyLeft EXCEPT ![u] = @ - 1]
    /\ hpc' = [hpc EXCEPT ![u] = "send"]
    /\ UNCHANGED <<lock, wpc, arch, chan, txAlive, rxAlive, tmpLen, outVal,
                   resp, debDir, rpc, rresp, outTmp, scratch, live, repogen,
                   gvars, pvars, dvars>>

\* body_stream.next() yields an error before the end of the body (the client
\* aborted the request): `?` returns, dropping bytes_tx and the oneshot
\* receiver.
HandlerBodyError(u) ==
    /\ hpc[u] = "next"
    /\ bodyLeft[u] > 0
    /\ hpc' = [hpc EXCEPT ![u] = "done"]
    /\ txAlive' = [txAlive EXCEPT ![u] = FALSE]
    /\ resp' = [resp EXCEPT ![u] = "Axum"]
    /\ UNCHANGED <<lock, wpc, arch, bodyLeft, chan, rxAlive, tmpLen,
                   outVal, debDir, rpc, rresp, outTmp, scratch, live, repogen,
                   gvars, pvars, dvars>>

\* bytes_tx.send(d).await: completes when the channel has room, fails with
\* InvalidSend when the receiver is gone.
HandlerSend(u) ==
    /\ hpc[u] = "send"
    /\ IF rxAlive[u]
       THEN /\ chan[u] < ChannelCapacity
            /\ chan' = [chan EXCEPT ![u] = @ + 1]
            /\ hpc' = [hpc EXCEPT ![u] = "next"]
            /\ UNCHANGED <<txAlive, resp>>
       ELSE /\ hpc' = [hpc EXCEPT ![u] = "done"]
            /\ txAlive' = [txAlive EXCEPT ![u] = FALSE]
            /\ resp' = [resp EXCEPT ![u] = "InvalidSend"]
            /\ UNCHANGED chan
    /\ UNCHANGED <<lock, wpc, arch, bodyLeft, rxAlive, tmpLen, outVal, debDir,
                   rpc, rresp, outTmp, scratch, live, repogen,
                   gvars, pvars, dvars>>

HandlerBodyEndKeepsSender(u) ==
    /\ hpc[u] = "next"
    /\ bodyLeft[u] = 0
    /\ hpc' = [hpc EXCEPT ![u] = "await"]
    /\ UNCHANGED <<lock, wpc, arch, bodyLeft, chan, txAlive, rxAlive, tmpLen,
                   outVal, resp, debDir, rpc, rresp, outTmp, scratch, live, repogen,
                   gvars, pvars, dvars>>

\* body_stream.next() yields None: the block ends, bytes_tx is dropped, and
\* the handler awaits the oneshot.
HandlerBodyEnd(u) ==
    /\ hpc[u] = "next"
    /\ bodyLeft[u] = 0
    /\ hpc' = [hpc EXCEPT ![u] = "await"]
    /\ txAlive' = [txAlive EXCEPT ![u] = FALSE]
    /\ UNCHANGED <<lock, wpc, arch, bodyLeft, chan, rxAlive, tmpLen,
                   outVal, resp, debDir, rpc, rresp, outTmp, scratch, live, repogen,
                   gvars, pvars, dvars>>

\* The answer to the writer's result v: AlreadyExists is answered as success
\* when ignore_exists is set.
UploadAnswer(v, ignore_exists) ==
    IF v = "AlreadyExists" /\ ignore_exists THEN "Ok" ELSE v

\* output.await completes with the writer's result.
HandlerAwait(u, ignore_exists) ==
    /\ hpc[u] = "await"
    /\ outVal[u] # "none"
    /\ hpc' = [hpc EXCEPT ![u] = "done"]
    /\ arch' = [arch EXCEPT ![u].ignore_exists = ignore_exists]
    /\ resp' = [resp EXCEPT ![u] = UploadAnswer(outVal[u], ignore_exists)]
    /\ UNCHANGED <<lock, wpc, bodyLeft, chan, txAlive, rxAlive, tmpLen,
                   outVal, debDir, rpc, rresp, outTmp, scratch, live, repogen,
                   gvars, pvars, dvars>>

\* deb_channel_to_storage, line 217: tempfile::tempfile() succeeds, or fails
\* and the function returns the error, dropping bytes_rx.
WriterTmpfile(u) ==
    /\ wpc[u] = "tmpfile"
    /\ \/ /\ wpc' = [wpc EXCEPT ![u] = "recv"]
          /\ UNCHANGED <<rxAlive, outVal>>
       \/ /\ wpc' = [wpc EXCEPT ![u] = "exit"]
          /\ rxAlive' = [rxAlive EXCEPT ![u] = FALSE]
          /\ outVal' = [outVal EXCEPT ![u] = "Io"]
    /\ UNCHANGED <<lock, hpc, arch, bodyLeft, chan, txAlive, tmpLen, resp,
                   debDir, rpc, rresp, outTmp, scratch, live, repogen,
                   gvars, pvars, dvars>>

\* bytes_rx.blocking_recv() returns Some(val); tmp.write_all(&val).
WriterRecv(u) ==
    /\ wpc[u] = "recv"
    /\ chan[u] > 0
    /\ chan' = [chan EXCEPT ![u] = @ - 1]
    /\ tmpLen' = [tmpLen EXCEPT ![u] = @ + 1]
    /\ UNCHANGED <<lock, hpc, wpc, arch, bodyLeft, txAlive, rxAlive, outVal,
                   resp, debDir, rpc, rresp, outTmp, scratch, live, repogen,
                   gvars, pvars, dvars>>

\* bytes_rx.blocking_recv() returns None: the channel is empty and every
\* sender is dropped. The loop ends, the temporary file is rewound and
\* find_location_and_move_deb_to_storage reads its control file (lines
\* 230-236).
WriterEof(u) ==
    /\ wpc[u] = "recv"
    /\ chan[u] = 0
    /\ ~txAlive[u]
    /\ IF DebToControl(arch[u], tmpLen[u]).err = "none"
       THEN /\ wpc' = [wpc EXCEPT ![u] = "open"]
            /\ UNCHANGED <<rxAlive, outVal>>
       ELSE /\ wpc' = [wpc EXCEPT ![u] = "exit"]
            /\ rxAlive' = [rxAlive EXCEPT ![u] = FALSE]
            /\ outVal' = [outVal EXCEPT ![u] = "DebParse"]
    /\ UNCHANGED <<lock, hpc, arch, bodyLeft, chan, txAlive, tmpLen, resp,
                   debDir, rpc, rresp, outTmp, scratch, live, repogen,
                   gvars, pvars, dvars>>

\* The path the writer stores the upload at.
OutfileOf(u) ==
    OutfilePath(RequiredFieldsFromMap(DebToControl(arch[u], tmpLen[u])))

WriterOpenTruncates(u) ==
    /\ wpc[u] = "open"
    /\ wpc' = [wpc EXCEPT ![u] = "copy"]
    /\ debDir' = [debDir EXCEPT ![OutfileOf(u)] = [by |-> u, len |-> 0]]
    /\ UNCHANGED <<lock, hpc, arch, bodyLeft, chan, txAlive, tmpLen, resp,
                   rxAlive, outVal, rpc, rresp, outTmp, scratch, live, repogen,
                   gvars, pvars, dvars>>

\* lines 238-251: OpenOptions::new().write(true).create_new(true).open().
WriterOpen(u) ==
    /\ wpc[u] = "open"
    /\ IF Exists(debDir[OutfileOf(u)])
       THEN /\ wpc' = [wpc EXCEPT ![u] = "exit"]
            /\ rxAlive' = [rxAlive EXCEPT ![u] = FALSE]
            /\ outVal' = [outVal EXCEPT ![u] = "AlreadyExists"]
            /\ UNCHANGED debDir
       ELSE /\ wpc' = [wpc EXCEPT ![u] = "copy"]
            /\ debDir' = [debDir EXCEPT ![OutfileOf(u)] = [by |-> u, len |-> 0]]
            /\ UNCHANGED <<rxAlive, outVal>>
    /\ UNCHANGED <<lock, hpc, arch, bodyLeft, chan, txAlive, tmpLen, resp,
                   rpc, rresp, outTmp, scratch, live, repogen,
                   gvars, pvars, dvars>>

\* lines 253-255: the temporary file is copied into the new file; the
\* function returns Ok and the thread sends it.
WriterCopy(u) ==
    /\ wpc[u] = "copy"
    /\ debDir' = [debDir EXCEPT ![OutfileOf(u)] = [by |-> u, len |-> tmpLen[u]]]
    /\ wpc' = [wpc EXCEPT ![u] = "exit"]
    /\ rxAlive' = [rxAlive EXCEPT ![u] = FALSE]
    /\ outVal' = [outVal EXCEPT ![u] = "Ok"]
    /\ UNCHANGED <<lock, hpc, arch, bodyLeft, chan, txAlive, tmpLen, resp,
                   rpc, rresp, outTmp, scratch, live, repogen,
                   gvars, pvars, dvars>>

\* regenerate, line 145: file_ops_pending.lock().await.
RegenLock(r) ==
    /\ rpc[r] = "idle"
    /\ lock = 0
    /\ lock' = r
    /\ rpc' = [rpc EXCEPT ![r] = "tempdir"]
    /\ UNCHANGED <<hpc, wpc, arch, bodyLeft, chan, txAlive, rxAlive, tmpLen,
                   outVal, resp, debDir, rresp, outTmp, scratch, live, repogen,
                   gvars, pvars, dvars>>

\* lines 146-156: tempfile::tempdir() creates output_tmp and the command is
\* spawned on it.
RegenSpawn(r) ==
    /\ rpc[r] = "tempdir"
    /\ outTmp' = [outTmp EXCEPT ![r] = EmptyDir]
    /\ rpc' = [rpc EXCEPT ![r] = "wait"]
    /\ UNCHANGED <<lock, hpc, wpc, arch, bodyLeft, chan, txAlive, rxAlive,
                   tmpLen, outVal, resp, debDir, rresp, scratch, live, repogen,
                   gvars, pvars, dvars>>

GeneratorExitKeepsGuard(r) ==
    /\ rpc[r] = "wait"
    /\ \E status \in ExitStatuses(r) :
        IF status = "success"
        THEN /\ outTmp' = [outTmp EXCEPT ![r] = Tree(r, debDir)]
             /\ rpc' = [rpc EXCEPT ![r] = "rename1"]
             /\ UNCHANGED <<lock, rresp>>
        ELSE /\ outTmp' = [outTmp EXCEPT ![r] = Absent]
             /\ rpc' = [rpc EXCEPT ![r] = "done"]
             /\ rresp' = [rresp EXCEPT ![r] = "GenerateFailed"]
             /\ UNCHANGED lock
    /\ UNCHANGED <<hpc, wpc, arch, bodyLeft, chan, txAlive, rxAlive, tmpLen,
                   outVal, resp, debDir, scratch, live, repogen,
                   gvars, pvars, dvars>>

\* lines 156-169: the subprocess exits. On failure GenerateFailed is returned;
\* the guard and output_tmp are dropped.
GeneratorExit(r) ==
    /\ rpc[r] = "wait"
    /\ \E status \in ExitStatuses(r) :
        IF status = "success"
        THEN /\ outTmp' = [outTmp EXCEPT ![r] = Tree(r, debDir)]
             /\ rpc' = [rpc EXCEPT ![r] = "rename1"]
             /\ UNCHANGED <<lock, rresp>>
        ELSE /\ outTmp' = [outTmp EXCEPT ![r] = Absent]
             /\ rpc' = [rpc EXCEPT ![r] = "done"]
             /\ rresp' = [rresp EXCEPT ![r] = "GenerateFailed"]
             /\ lock' = 0
    /\ UNCHANGED <<hpc, wpc, arch, bodyLeft, chan, txAlive, rxAlive, tmpLen,
                   outVal, resp, debDir, scratch, live, repogen,
                   gvars, pvars, dvars>>

\* An I/O error leaves regenerate through `?`: the guard and output_tmp are
\* dropped.
RegenIoError(r) ==
    /\ rpc' = [rpc EXCEPT ![r] = "done"]
    /\ rresp' = [rresp EXCEPT ![r] = "Io"]
    /\ outTmp' = [outTmp EXCEPT ![r] = Absent]
    /\ lock' = 0

\* line 164: rename(repo_directory, to_delete).
RegenRename1(r) ==
    /\ rpc[r] = "rename1"
    /\ \/ /\ live # Absent
          /\ scratch' = [scratch EXCEPT ![r] = live]
          /\ live' = Absent
          /\ rpc' = [rpc EXCEPT ![r] = "rename2"]
          /\ UNCHANGED <<lock, rresp, outTmp>>
       \/ /\ RegenIoError(r)
          /\ UNCHANGED <<scratch, live>>
    /\ UNCHANGED <<hpc, wpc, arch, bodyLeft, chan, txAlive, rxAlive, tmpLen,
                   outVal, resp, debDir, repogen,
                   gvars, pvars, dvars>>

\* line 165: rename(output_tmp, repo_directory).
RegenRename2(r) ==
    /\ rpc[r] = "rename2"
    /\ \/ /\ live' = outTmp[r]
          /\ outTmp' = [outTmp EXCEPT ![r] = Absent]
          /\ rpc' = [rpc EXCEPT ![r] = "remove"]
          /\ UNCHANGED <<lock, rresp>>
       \/ /\ RegenIoError(r)
          /\ UNCHANGED live
    /\ UNCHANGED <<hpc, wpc, arch, bodyLeft, chan, txAlive, rxAlive, tmpLen,
                   outVal, resp, debDir, scratch, repogen,
                   gvars, pvars, dvars>>

\* lines 166-171: remove_dir_all(to_delete), drop(guard), Ok(()).
RegenRemove(r) ==
    /\ rpc[r] = "remove"
    /\ \/ /\ scratch' = [scratch EXCEPT ![r] = Absent]
          /\ rpc' = [rpc EXCEPT ![r] = "done"]
          /\ rresp' = [rresp EXCEPT ![r] = "Ok"]
          /\ lock' = 0
          /\ UNCHANGED outTmp
       \/ /\ RegenIoError(r)
          /\ UNCHANGED scratch
    /\ UNCHANGED <<hpc, wpc, arch, bodyLeft, chan, txAlive, rxAlive, tmpLen,
                   outVal, resp, debDir, live, repogen,
                   gvars, pvars, dvars>>

Next ==
    \/ \E u \in Uploads :
        \/ \E a \in Archives : UploadStart(u, a)
        \/ HandlerNextChunk(u)
        \/ HandlerBodyError(u)
        \/ HandlerSend(u)
        \/ HandlerBodyEnd(u)
        \/ \E ignore_exists \in BOOLEAN : HandlerAwait(u, ignore_exists)
        \/ WriterTmpfile(u)
        \/ WriterRecv(u)
        \/ WriterEof(u)
        \/ WriterOpen(u)
        \/ WriterCopy(u)
    \/ \E r \in Regens :
        \/ RegenLock(r)
        \/ RegenSpawn(r)
        \/ GeneratorExit(r)
        \/ RegenRename1(r)
        \/ RegenRename2(r)
        \/ RegenRemove(r)

\* ----------------------------------------------------------- specifications

Range(q) == {q[i] : i \in 1..Len(q)}

\* --output-dir before the first copy.
EmptyPool == [path \in {} |-> <<>>]
GenIdle ==
    /\ packages = <<>>
    /\ runs = <<>>
    /\ start_paths = <<>>
    /\ pool = EmptyPool
DebIdle ==
    /\ deb = <<>>
    /\ raw = [kind |-> "Idle"]
    /\ control = [kind |-> "Idle"]
ParseIdle ==
    /\ input = <<>>
    /\ idx = 0
    /\ pstate = [name |-> "Idle"]
    /\ output = <<>>
    /\ presult = [kind |-> "Idle"]

Init ==
    /\ ServiceInit
    /\ repogen \in RepogenCommands
    /\ GenIdle
    /\ ParseIdle
    /\ DebIdle


Spec == Init /\ [][Next]_vars

\* ------------------------------------------ one upload with a long body

\* An upload whose body has one chunk more than the byte channel holds.
LongArchives ==
    {a \in [n : {ChannelCapacity + 1}, ctl : {1}, valid : BOOLEAN,
            package : Names, version : Versions, architecture : {"amd64"},
            ignore_exists : {FALSE}] : TRUE}

UploadInit ==
    /\ ServiceInit
    /\ repogen = "godsvagn-repogen"
    /\ GenIdle
    /\ ParseIdle
    /\ DebIdle

\* The steps of the handler and of the writer thread of upload 1.
UploadNext ==
    \/ \E a \in LongArchives : UploadStart(1, a)
    \/ HandlerNextChunk(1)
    \/ HandlerBodyError(1)
    \/ HandlerSend(1)
    \/ HandlerBodyEnd(1)
    \/ \E ignore_exists \in BOOLEAN : HandlerAwait(1, ignore_exists)
    \/ WriterTmpfile(1)
    \/ WriterRecv(1)
    \/ WriterEof(1)
    \/ WriterOpen(1)
    \/ WriterCopy(1)

UploadSpec == UploadInit /\ [][UploadNext]_vars

\* The runtime polls a future that can make progress and the operating
\* system runs the writer thread; the client is not obliged to send the rest
\* of the body.
UploadFairness ==
    /\ WF_vars(HandlerSend(1))
    /\ WF_vars(\E ignore_exists \in BOOLEAN : HandlerAwait(1, ignore_exists))
    /\ WF_vars(WriterTmpfile(1))
    /\ WF_vars(WriterRecv(1))
    /\ WF_vars(WriterEof(1))
    /\ WF_vars(WriterOpen(1))
    /\ WF_vars(WriterCopy(1))

UploadFairSpec == UploadSpec /\ UploadFairness

\* --------------------------------- two uploads; one upload and a regeneration

\* The steps of the two uploads, no regeneration being requested.
StoreNext ==
    \E u \in Uploads :
        \/ \E a \in Archives : UploadStart(u, a)
        \/ HandlerNextChunk(u)
        \/ HandlerBodyError(u)
        \/ HandlerSend(u)
        \/ HandlerBodyEnd(u)
        \/ \E ignore_exists \in BOOLEAN : HandlerAwait(u, ignore_exists)
        \/ WriterTmpfile(u)
        \/ WriterRecv(u)
        \/ WriterEof(u)
        \/ WriterOpen(u)
        \/ WriterCopy(u)

StoreSpec == UploadInit /\ [][StoreNext]_vars

\* The steps of upload 1 and of the regeneration.
RegenNext ==
    \/ \E a \in Archives : UploadStart(1, a)
    \/ HandlerNextChunk(1)
    \/ HandlerBodyError(1)
    \/ HandlerSend(1)
    \/ HandlerBodyEnd(1)
    \/ \E ignore_exists \in BOOLEAN : HandlerAwait(1, ignore_exists)
    \/ WriterTmpfile(1)
    \/ WriterRecv(1)
    \/ WriterEof(1)
    \/ WriterOpen(1)
    \/ WriterCopy(1)
    \/ \E r \in Regens :
        \/ RegenLock(r)
        \/ RegenSpawn(r)
        \/ GeneratorExit(r)
        \/ RegenRename1(r)
        \/ RegenRename2(r)
        \/ RegenRemove(r)

RegenSpec == Init /\ [][RegenNext]_vars

\* ------------------------------------------------- upload service: claims

\* An upload has created its package file in deb_directory and has not yet
\* finished writing it.
UploadMutating(u) == wpc[u] = "copy"

\* A regeneration is running the generator or swapping the live tree.
RegenMutating(r) == rpc[r] \in {"wait", "rename1", "rename2", "remove"}

\* C1: in every reachable state at most one of the uploads creating or
\* writing a package file and the regenerations running the generator or
\* swapping the live tree is in progress.
C1_FileOpsSerialized ==
    Cardinality({u \in Uploads : UploadMutating(u)}
                \cup {r \in Regens : RegenMutating(r)}) <= 1

\* C2: an upload whose body stream failed before the end of the body leaves
\* no file of its own in deb_directory.
C2_AbortedUploadStoresNothing ==
    \A u \in Uploads :
        resp[u] = "Axum" => \A p \in DebPaths : debDir[p].by # u

\* C3: in every reachable state the live repository path holds a complete
\* tree, the old one or a newly generated one.
C3_LiveTreeAlwaysPresent == live.kind = "tree"

\* C4: a /regenerate request served by the generator of this repository while
\* every file of deb_directory is a valid package completes successfully, and
\* the live tree is then the newly generated one.
C4_RegenerateSucceeds ==
    \A r \in Regens :
        (rpc[r] = "done" /\ repogen = "godsvagn-repogen" /\ InputsOk(debDir))
            => (rresp[r] = "Ok" /\ live = Tree(r, debDir))

\* ---------------------------------------------------- generator core: data

MaxPkgs == 3

\* generate_files is run twice over the same input: a first and a second run.
RunIds == {1, 2}

PkgNames == {"a", "b"}
PkgArches == {"amd64", "arm64"}

\* str::trim: leading and trailing whitespace removed.
Whitespace == {" ", "\t", "\n", "\r"}

RECURSIVE TrimStart(_)
TrimStart(t) ==
    IF t = <<>> THEN t
    ELSE IF Head(t) \in Whitespace THEN TrimStart(Tail(t)) ELSE t

RECURSIVE TrimEnd(_)
TrimEnd(t) ==
    IF t = <<>> THEN t
    ELSE IF t[Len(t)] \in Whitespace THEN TrimEnd(SubSeq(t, 1, Len(t) - 1))
    ELSE t

\* A mutation of Trim: only leading whitespace is removed.
TrimLeadingOnly(t) == TrimStart(t)

Trim(t) == TrimEnd(TrimStart(t))

\* A digest of a byte sequence, as the lowercase hex HexDisplay prints it: an
\* ideal hash, one value per algorithm and content.
Digest(alg, bytes) == <<alg, bytes>>

\* FileSums::new: the three digests of everything the reader yields.
FileSumsNew(r) ==
    [sha1 |-> Digest("sha1", r), sha256 |-> Digest("sha256", r),
     md5 |-> Digest("md5", r)]

FileMetaNewSizeOffByOne(path, file) ==
    [path |-> path, size |-> Len(file) + 1, sums |-> FileSumsNew(file)]

\* FileMeta::new
FileMetaNew(path, file) ==
    [path |-> path, size |-> Len(file), sums |-> FileSumsNew(file)]

\* The control fields of a package file, as parse_control returns them: raw
\* values, from the byte after ':' to the newline.
ControlFields(name, version, architecture) ==
    << <<"Package", <<" ", name, "\n">> >>,
       <<"Version", <<" ", version, "\n">> >>,
       <<"Architecture", <<" ", architecture, "\n">> >>,
       <<"Maintainer", <<" ", "m", "\n">> >>,
       <<"Description", <<" ", "short", "\n", " ", "long", "\n">> >> >>

\* The bytes of the package file.
DebBytes(p, name, version, architecture) ==
    <<"deb", p, name, version, architecture>>

\* str::to_ascii_lowercase, on the key spellings the model draws.
ToAsciiLowercase(w) ==
    CASE w = "Package" -> "package"
      [] w = "Version" -> "version"
      [] w = "Architecture" -> "architecture"
      [] w = "Maintainer" -> "maintainer"
      [] w = "Description" -> "description"
      [] w = "PACKAGE" -> "package"
      [] w = "DESCRIPTION" -> "description"
      [] w = "Filename" -> "filename"
      [] w = "SIZE" -> "size"
      [] w = "Description-md5" -> "description-md5"
      [] w = "Homepage" -> "homepage"
      [] OTHER -> w

\* The characters of the model that take more than one byte in UTF-8, and
\* the bytes of a character and of a text.
MultiByteChars == {"e-acute"}
Utf8(c) == IF c = "e-acute" THEN <<"0xC3", "0xA9">> ELSE <<c>>

RECURSIVE Utf8Bytes(_)
Utf8Bytes(t) ==
    IF t = <<>> THEN <<>> ELSE Utf8(Head(t)) \o Utf8Bytes(Tail(t))

\* str::get(1..): the text from byte offset 1 on, None when the text is
\* empty or offset 1 is inside its first character.
None == [some |-> FALSE]
Some(t) == [some |-> TRUE, str |-> t]
StrGetFrom1(v) ==
    IF v = <<>> THEN None
    ELSE IF Head(v) \in MultiByteChars THEN None
    ELSE Some(Tail(v))

\* read_package, lines 201-209: the MD5 of the Description value from its
\* second byte on, of the empty string without a Description or when get
\* returns None.
DescriptionMd5(fields) ==
    LET ds == {i \in 1..Len(fields) :
                   ToAsciiLowercase(fields[i][1]) = "description"}
    IN  IF ds = {} THEN Digest("md5", <<>>)
        ELSE LET v == StrGetFrom1(fields[CHOOSE i \in ds : \A j \in ds : i <= j][2])
             IN  IF v.some THEN Digest("md5", Utf8Bytes(v.str))
                 ELSE Digest("md5", <<>>)

\* The paths under --input-dir the package files are read from.
InputPaths == {"debs/x.deb", "debs/amd64/y.deb", "debs/arm64/z.deb"}

\* A mutation of ReadPackage: the path of the input file is kept.
ReadPackageKeepsInputPath(p, name, version, architecture) ==
    [meta |-> [file |-> [path |-> p,
                         size |-> Len(DebBytes(p, name, version, architecture)),
                         sums |-> FileSumsNew(DebBytes(p, name, version, architecture))],
               description_md5 |->
                   DescriptionMd5(ControlFields(name, version, architecture))],
     name |-> name,
     architecture |-> architecture,
     version |-> version,
     fields |-> ControlFields(name, version, architecture)]

\* read_package(p): the Package of the package file at path p, whose
\* control file has the given fields, among them the given name, version
\* and architecture.
ReadPackageFrom(p, fields, name, version, architecture) ==
    LET file_meta == [path |-> p,
                      size |-> Len(DebBytes(p, name, version, architecture)),
                      sums |-> FileSumsNew(DebBytes(p, name, version, architecture))]
        meta == [file |-> file_meta, description_md5 |-> DescriptionMd5(fields)]
        path == "pool/main/" \o name \o "_" \o version \o "_" \o architecture
                    \o ".deb"
    IN  [meta |-> [meta EXCEPT !.file = [meta.file EXCEPT !.path = path]],
         name |-> name,
         architecture |-> architecture,
         version |-> version,
         fields |-> fields]

\* read_package(p) on a package file whose control file is the usual five
\* fields.
ReadPackage(p, name, version, architecture) ==
    ReadPackageFrom(p, ControlFields(name, version, architecture),
                    name, version, architecture)

PackageUniverse ==
    {ReadPackage(p, n, "1", a) : p \in InputPaths, n \in PkgNames, a \in PkgArches}

\* PackageMeta::serialize
PackageMetaSerialize(meta) ==
    <<"Filename", ":", " ", meta.file.path, "\n",
      "Size", ":", " ", ToString(meta.file.size), "\n",
      "Description-md5", ":", " ", meta.description_md5, "\n",
      "MD5sum", ":", " ", meta.file.sums.md5, "\n",
      "SHA1", ":", " ", meta.file.sums.sha1, "\n",
      "SHA256", ":", " ", meta.file.sums.sha256>>

RECURSIVE WriteFields(_)
WriteFields(fields) ==
    IF fields = <<>> THEN <<>>
    ELSE <<Head(fields)[1]>> \o <<":", " ">> \o Trim(Head(fields)[2]) \o <<"\n">>
            \o WriteFields(Tail(fields))

\* Package::write_into_packages: what it appends to the target.
WriteIntoPackages(package) ==
    WriteFields(package.fields) \o PackageMetaSerialize(package.meta)

\* ----------------------------------------------- generator core: indexgen

\* The architectures of a package list, as a set.
ArchesOf(pkgs) == {pkgs[i].architecture : i \in 1..Len(pkgs)}

\* The orders a HashMap of these keys can be iterated in: its hasher is
\* seeded at random in every process, so any order.
IterationOrders(keys) ==
    {o \in [1..Cardinality(keys) -> keys] :
        \A i, j \in 1..Cardinality(keys) : i # j => o[i] # o[j]}

AggregateNoSeparatorWhenOccupied(pkgs) ==
    LET RECURSIVE Agg(_)
        Agg(k) ==
            IF k = 0 THEN [a \in {} |-> <<>>]
            ELSE LET prev == Agg(k - 1)
                     a == pkgs[k].architecture
                 IN  IF a \in DOMAIN prev
                     THEN [prev EXCEPT ![a] = @ \o WriteIntoPackages(pkgs[k])]
                     ELSE [b \in DOMAIN prev \cup {a} |->
                              IF b = a
                              THEN WriteIntoPackages(pkgs[k]) \o <<"\n", "\n">>
                              ELSE prev[b]]
    IN  Agg(Len(pkgs))

\* generate_index_files, lines 135-150: the aggregator after the loop over
\* the packages, a map from architecture to index text.
Aggregate(pkgs) ==
    LET RECURSIVE Agg(_)
        Agg(k) ==
            IF k = 0 THEN [a \in {} |-> <<>>]
            ELSE LET prev == Agg(k - 1)
                     a == pkgs[k].architecture
                 IN  IF a \in DOMAIN prev
                     THEN [prev EXCEPT ![a] =
                              @ \o WriteIntoPackages(pkgs[k]) \o <<"\n", "\n">>]
                     ELSE [b \in DOMAIN prev \cup {a} |->
                              IF b = a
                              THEN WriteIntoPackages(pkgs[k]) \o <<"\n", "\n">>
                              ELSE prev[b]]
    IN  Agg(Len(pkgs))

\* generate_index_files, lines 152-158: the map's entries in the order its
\* iterator yields them.
GenerateIndexFiles(pkgs, order) ==
    [i \in 1..Len(order) |->
        [arch |-> order[i], contents |-> Aggregate(pkgs)[order[i]]]]

\* gzip(best) and xz level 9 of a byte sequence: a framed copy, the same for
\* the same input (GzBuilder writes no file name and a zero mtime).
Gzip(a) == <<"gz{">> \o a \o <<"}">>
Xz(a) == <<"xz{">> \o a \o <<"}", "crc">>

ResultFlatMapperXzPathGz(ifa) ==
    LET base_path == "main/binary-" \o ifa.arch \o "/Packages"
    IN  << [path |-> base_path \o ".gz", arch |-> ifa.arch,
            data |-> Gzip(ifa.contents)],
           [path |-> base_path \o ".gz", arch |-> ifa.arch,
            data |-> Xz(ifa.contents)],
           [path |-> base_path, arch |-> ifa.arch, data |-> ifa.contents] >>

\* result_flat_mapper: the three PackageIndexFile of one architecture.
ResultFlatMapper(ifa) ==
    LET base_path == "main/binary-" \o ifa.arch \o "/Packages"
    IN  << [path |-> base_path \o ".gz", arch |-> ifa.arch,
            data |-> Gzip(ifa.contents)],
           [path |-> base_path \o ".xz", arch |-> ifa.arch,
            data |-> Xz(ifa.contents)],
           [path |-> base_path, arch |-> ifa.arch, data |-> ifa.contents] >>

RECURSIVE FlatMap(_)
FlatMap(ifas) ==
    IF ifas = <<>> THEN <<>>
    ELSE ResultFlatMapper(Head(ifas)) \o FlatMap(Tail(ifas))

RECURSIVE JoinNoSeparator(_)
JoinNoSeparator(ws) ==
    IF ws = <<>> THEN <<>> ELSE <<ws[1]>> \o JoinNoSeparator(Tail(ws))

\* [&str]::join(" ")
RECURSIVE JoinSpace(_)
JoinSpace(ws) ==
    IF ws = <<>> THEN <<>>
    ELSE IF Len(ws) = 1 THEN <<ws[1]>>
    ELSE <<ws[1], " ">> \o JoinSpace(Tail(ws))

\* One hash section of the Release text: a line per file.
RECURSIVE HashLines(_, _)
HashLines(files, alg) ==
    IF files = <<>> THEN <<>>
    ELSE <<" ", Head(files).sums[alg], " ", ToString(Head(files).size), " ",
           Head(files).path, "\n">> \o HashLines(Tail(files), alg)

Reverse(q) == [i \in 1..Len(q) |-> q[Len(q) + 1 - i]]

GenerateReleaseSha1Reversed(meta, files, arches) ==
    <<"Origin", ":", " ", meta.origin, "\n",
      "Label", ":", " ", meta.label, "\n",
      "Suite", ":", " ", meta.suite, "\n",
      "Version", ":", " ", meta.version, "\n",
      "Codename", ":", " ", meta.codename, "\n",
      "Date", ":", " ", meta.date, "\n",
      "Architectures", ":", " ">> \o JoinSpace(arches) \o <<"\n",
      "Components", ":", " ", "main", "\n",
      "Acquire-By-Hash", ":", " ", "no", "\n",
      "Changelogs", ":", " ", "no", "\n",
      "Snapshots", ":", " ", "no", "\n">>
    \o <<"MD5Sum", ":", "\n">> \o HashLines(files, "md5")
    \o <<"SHA1", ":", "\n">> \o HashLines(Reverse(files), "sha1")
    \o <<"SHA256", ":", "\n">> \o HashLines(files, "sha256")

\* generate_release: the Release text.
GenerateRelease(meta, files, arches) ==
    <<"Origin", ":", " ", meta.origin, "\n",
      "Label", ":", " ", meta.label, "\n",
      "Suite", ":", " ", meta.suite, "\n",
      "Version", ":", " ", meta.version, "\n",
      "Codename", ":", " ", meta.codename, "\n",
      "Date", ":", " ", meta.date, "\n",
      "Architectures", ":", " ">> \o JoinSpace(arches) \o <<"\n",
      "Components", ":", " ", "main", "\n",
      "Acquire-By-Hash", ":", " ", "no", "\n",
      "Changelogs", ":", " ", "no", "\n",
      "Snapshots", ":", " ", "no", "\n">>
    \o <<"MD5Sum", ":", "\n">> \o HashLines(files, "md5")
    \o <<"SHA1", ":", "\n">> \o HashLines(files, "sha1")
    \o <<"SHA256", ":", "\n">> \o HashLines(files, "sha256")

\* The release metadata of the runs: the configuration, and the date the
\* caller hands in.
ReleaseConfig ==
    [origin |-> "o", label |-> "l", suite |-> "s", codename |-> "c",
     version |-> "v", description |-> "desc", date |-> "date"]

\* CleartextSignedMessage::sign with rand::thread_rng(): the signature packet
\* over a text, from the key and the randomness drawn.
Signature(text, key, rnd) == <<"signature", text, key, rnd>>

\* generate_files: the list of FileToUpload, for the iteration order of the
\* aggregator and the randomness of the signature.
GenerateFiles(release_config, key, pkgs, order, rnd) ==
    LET indexes == FlatMap(GenerateIndexFiles(pkgs, order))
        package_meta == [i \in 1..Len(indexes) |->
                            FileMetaNew(indexes[i].path, indexes[i].data)]
        architectures == [i \in 1..Len(indexes) |-> indexes[i].arch]
        release == GenerateRelease(release_config, package_meta, architectures)
        sig == Signature(release, key, rnd)
        indexes_base ==
            << [destination_path |-> "InRelease",
                data |-> <<"-----BEGIN PGP SIGNED MESSAGE-----", "\n">>
                            \o release \o <<sig>>],
               [destination_path |-> "Release", data |-> release],
               [destination_path |-> "Release.gpg", data |-> <<sig>>],
               [destination_path |-> "deriv-archive-keyring.pgp",
                data |-> <<"public", key>>] >>
    IN  [i \in 1..Len(indexes) |->
            [destination_path |-> indexes[i].path, data |-> indexes[i].data]]
        \o indexes_base

\* ------------------------------------------------ generator core: actions

\* get_packages, lines 155-157: the next file of the input directory, one
\* not listed before, is read and pushed on the list with its path.
AddPackage(start_path, name, architecture) ==
    /\ runs = <<>>
    /\ Len(packages) < MaxPkgs
    /\ start_path \notin Range(start_paths)
    /\ packages' = Append(packages, ReadPackage(start_path, name, "1", architecture))
    /\ start_paths' = Append(start_paths, start_path)
    /\ UNCHANGED <<runs, pool, svars, pvars, dvars>>

\* main, lines 74-88: every package file is copied from its input path to
\* its pool path under --output-dir, in the order of the list; a copy onto
\* an existing file replaces it.
CopyToPool(paths, pkgs) ==
    LET RECURSIVE Copy(_)
        Copy(k) ==
            IF k = 0 THEN EmptyPool
            ELSE LET prev == Copy(k - 1)
                     end_path == pkgs[k].meta.file.path
                     bytes == DebBytes(paths[k], pkgs[k].name, pkgs[k].version,
                                       pkgs[k].architecture)
                 IN  [q \in DOMAIN prev \cup {end_path} |->
                         IF q = end_path THEN bytes ELSE prev[q]]
    IN  Copy(Len(pkgs))

\* One run of main from line 72 on: the copies into the pool, then
\* generate_files over the package list.
Generate(order, rnd) ==
    /\ Len(runs) < Cardinality(RunIds)
    /\ pool' = CopyToPool(start_paths, packages)
    /\ runs' = Append(runs, GenerateFiles(ReleaseConfig, "key", packages, order, rnd))
    /\ UNCHANGED <<packages, start_paths, svars, pvars, dvars>>

GenInit ==
    /\ ServiceInit
    /\ repogen = "godsvagn-repogen"
    /\ GenIdle
    /\ ParseIdle
    /\ DebIdle

GenNext ==
    \/ \E start_path \in InputPaths, name \in PkgNames, architecture \in PkgArches :
        AddPackage(start_path, name, architecture)
    \/ \E order \in IterationOrders(ArchesOf(packages)), rnd \in 1..2 :
        Generate(order, rnd)

GenSpec == GenInit /\ [][GenNext]_vars

\* ------------------------------------- generator: reading package files

MaxReads == 2

\* The Description fields of the control files read: none, or one under a
\* spelling of the key with a value the parser can return (the span after the
\* colon up to and including the last newline).
DescriptionKeys == {"Description", "description", "DESCRIPTION"}
DescriptionValues ==
    { <<" ", "short", "\n", " ", "long", "\n">>,
      <<" ", "d", " ", "\n">>,
      <<"\t", "d", "\n">>,
      <<"d", "\n">>,
      <<"e-acute", "d", "\n">> }
DescriptionFields ==
    { <<>> } \cup { << <<k, v>> >> : k \in DescriptionKeys, v \in DescriptionValues }

\* The control file of a package file read: the required fields and the
\* Description field d, if any.
ControlFieldsWith(name, version, architecture, d) ==
    << <<"Package", <<" ", name, "\n">> >>,
       <<"Version", <<" ", version, "\n">> >>,
       <<"Architecture", <<" ", architecture, "\n">> >>,
       <<"Maintainer", <<" ", "m", "\n">> >> >> \o d

\* get_packages, lines 156-157: read_package on the next file of the input
\* directory, pushed on the list.
ReadPackageFile(p, architecture, d) ==
    /\ runs = <<>>
    /\ Len(packages) < MaxReads
    /\ p \notin Range(start_paths)
    /\ packages' = Append(packages,
            ReadPackageFrom(p, ControlFieldsWith("a", "1", architecture, d),
                            "a", "1", architecture))
    /\ start_paths' = Append(start_paths, p)
    /\ UNCHANGED <<runs, pool, svars, pvars, dvars>>


\* ------------------------------------------------- generator core: claims

\* Reading a text back: its lines, each without its newline.
LinesOf(t) ==
    LET IsNewline(i) == t[i] = "\n"
        nl == SelectSeq([i \in 1..Len(t) |-> i], IsNewline)
    IN  [n \in 1..Len(nl) |->
            SubSeq(t, IF n = 1 THEN 1 ELSE nl[n - 1] + 1, nl[n] - 1)]

\* The entries of one hash section of a Release text: the lines that follow
\* the section's header up to the next line that does not start with a space.
SectionOf(release, header) ==
    LET ls == LinesOf(release)
        h == CHOOSE i \in 1..Len(ls) : ls[i] = <<header, ":">>
        stop == {i \in (h + 1)..Len(ls) : ls[i] = <<>> \/ ls[i][1] # " "}
        last == IF stop = {} THEN Len(ls)
                ELSE (CHOOSE i \in stop : \A j \in stop : i <= j) - 1
    IN  [k \in 1..(last - h) |->
            [digest |-> ls[h + k][2], size |-> ls[h + k][4], path |-> ls[h + k][6],
             width |-> Len(ls[h + k])]]

SectionHeader == [md5 |-> "MD5Sum", sha1 |-> "SHA1", sha256 |-> "SHA256"]
Algs == DOMAIN SectionHeader

ReleaseFileNames == {"InRelease", "Release", "Release.gpg", "deriv-archive-keyring.pgp"}
SignatureFileNames == {"InRelease", "Release.gpg"}

\* The Release text a run returned, and the index files it returned.
ReleaseOf(run) ==
    (CHOOSE i \in 1..Len(run) : run[i].destination_path = "Release")

IsIndexFile(f) == f.destination_path \notin ReleaseFileNames

PathsOf(entries) == [i \in 1..Len(entries) |-> entries[i].path]

NoDuplicates(q) == \A i, j \in 1..Len(q) : i # j => q[i] # q[j]

\* C5: for every index file (path, data) a run returns, each hash section of
\* the returned Release text lists that path, and with it the length and the
\* digest of data.
C5_ReleaseMatchesData ==
    \A r \in 1..Len(runs) :
        \A alg \in Algs :
            LET sec == SectionOf(runs[r][ReleaseOf(runs[r])].data,
                                 SectionHeader[alg])
            IN  \A i \in 1..Len(runs[r]) :
                    IsIndexFile(runs[r][i]) =>
                        /\ \E k \in 1..Len(sec) :
                            sec[k].path = runs[r][i].destination_path
                        /\ \A k \in 1..Len(sec) :
                            sec[k].path = runs[r][i].destination_path =>
                                /\ sec[k].size = ToString(Len(runs[r][i].data))
                                /\ sec[k].digest = Digest(alg, runs[r][i].data)

\* A run over two architectures, one of them with two packages, has returned
\* its files.
C5_Witness ==
    /\ Len(runs) >= 1
    /\ Cardinality(ArchesOf(packages)) = 2
    /\ Len(packages) = 3

\* C6: each hash section of the Release text lists every returned index file
\* exactly once and no other path, and the three sections list the same
\* paths in the same order.
C6_SectionsListIndexFilesOnce ==
    \A r \in 1..Len(runs) :
        LET release == runs[r][ReleaseOf(runs[r])].data
            paths == [alg \in Algs |-> PathsOf(SectionOf(release, SectionHeader[alg]))]
        IN  /\ \A alg \in Algs :
                /\ NoDuplicates(paths[alg])
                /\ Range(paths[alg]) =
                    {runs[r][i].destination_path : i \in
                        {j \in 1..Len(runs[r]) : IsIndexFile(runs[r][j])}}
            /\ paths["md5"] = paths["sha1"]
            /\ paths["sha1"] = paths["sha256"]

\* A run over two architectures has returned a Release text with six entries
\* in its SHA1 section.
C6_Witness ==
    /\ Len(runs) >= 1
    /\ Cardinality(ArchesOf(packages)) = 2
    /\ Len(SectionOf(runs[1][ReleaseOf(runs[1])].data, "SHA1")) = 6

\* The destination paths the orchestrator is to return for a package list.
ExpectedPaths(pkgs) ==
    {"main/binary-" \o a \o "/Packages" \o ext :
        a \in ArchesOf(pkgs), ext \in {"", ".gz", ".xz"}}
    \cup ReleaseFileNames

\* C7: the destination paths of the list generate_files returns are pairwise
\* distinct and are exactly the three index paths of every distinct
\* architecture and the four release files: 3 x architectures + 4 entries.
C7_PathsDistinctAndExact ==
    \A r \in 1..Len(runs) :
        LET paths == [i \in 1..Len(runs[r]) |-> runs[r][i].destination_path]
        IN  /\ NoDuplicates(paths)
            /\ Range(paths) = ExpectedPaths(packages)
            /\ Len(paths) = 3 * Cardinality(ArchesOf(packages)) + 4

\* Two packages of two architectures: a run has returned ten entries.
C7_Witness ==
    /\ Len(packages) = 2
    /\ Cardinality(ArchesOf(packages)) = 2
    /\ Len(runs) >= 1
    /\ Len(runs[1]) = 10

\* C8: two runs of generate_files over the same metadata, date, key and
\* package list return byte-identical non-signature files.
C8_RunsByteIdentical ==
    Len(runs) = 2 =>
        \A i \in 1..Len(runs[1]), j \in 1..Len(runs[2]) :
            (/\ runs[1][i].destination_path = runs[2][j].destination_path
             /\ runs[1][i].destination_path \notin SignatureFileNames)
                => runs[1][i].data = runs[2][j].data

\* The index text of architecture a: the stanzas of its packages in input
\* order, each followed by a blank line.
RECURSIVE ExpectedIndex(_, _)
ExpectedIndex(pkgs, a) ==
    IF pkgs = <<>> THEN <<>>
    ELSE (IF Head(pkgs).architecture = a
          THEN WriteIntoPackages(Head(pkgs)) \o <<"\n", "\n">>
          ELSE <<>>) \o ExpectedIndex(Tail(pkgs), a)

\* C9: the Packages index of every architecture holds the stanzas of exactly
\* the packages of that architecture, each once, in input order, each
\* followed by a blank line; there is an index for an architecture only if a
\* package has it.
C9_IndexPartitionsByArchitecture ==
    \A r \in 1..Len(runs) :
        /\ \A a \in ArchesOf(packages) :
            \E i \in 1..Len(runs[r]) :
                /\ runs[r][i].destination_path = "main/binary-" \o a \o "/Packages"
                /\ runs[r][i].data = ExpectedIndex(packages, a)
        /\ \A a \in PkgArches \ ArchesOf(packages) :
            \A i \in 1..Len(runs[r]) :
                runs[r][i].destination_path # "main/binary-" \o a \o "/Packages"

\* A run over three packages, the first and the third of one architecture
\* and the second of another.
C9_Witness ==
    /\ Len(packages) = 3
    /\ packages[1].architecture = packages[3].architecture
    /\ packages[1].architecture # packages[2].architecture
    /\ packages[1] # packages[3]
    /\ Len(runs) >= 1

\* ------------------------------------------------------------------------
\* parsedeb: parse_control.  A text is a sequence of one-byte characters, so
\* that char.len_utf8() is 1 and byte offsets are character counts.
\* ------------------------------------------------------------------------
MaxLines == 3
MaxLen == 5

Alphabet == {"a", ":", "\n", " ", "\t", "#"}

\* The lines the line-built inputs are made of: two fields, the two kinds of
\* continuation line, a comment, a blank line, a '#' inside a key, and the
\* ways a field can stop short.
LineUniverse ==
    { <<"a", ":", " ", "x", "\n">>,
      <<"b", ":", "y", "\n">>,
      <<" ", "c", "\n">>,
      <<"\t", "\n">>,
      <<"#", "c", "\n">>,
      <<"\n">>,
      <<"a", "#", ":", "z", "\n">>,
      <<"b", ":", "\n">>,
      <<"b", ":", "y">>,
      <<"b", ":">>,
      <<"b">> }

RECURSIVE LineTexts(_)
LineTexts(n) ==
    IF n = 0 THEN { <<>> }
    ELSE LET prev == LineTexts(n - 1)
         IN  prev \cup { t \o l : t \in prev, l \in LineUniverse }

RECURSIVE Strings(_)
Strings(n) ==
    IF n = 0 THEN { <<>> }
    ELSE LET prev == Strings(n - 1)
         IN  prev \cup { Append(t, c) : t \in prev, c \in Alphabet }

Inputs == LineTexts(MaxLines) \cup Strings(MaxLen)

\* &input[s..e]
Slice(text, s, e) == SubSeq(text, s + 1, e)

\* A mutation of SkippingNewlineComment: the newline does not end a comment.
CommentNeverEnds == [name |-> "SkippingComment"]

\* ParseState
CreatingKey(s) == [name |-> "CreatingKey", s |-> s]
SkippingComment == [name |-> "SkippingComment"]
SkippingNewlineComment == [name |-> "SkippingNewlineComment"]
SkippingColon(k) == [name |-> "SkippingColon", key |-> k]
CreatingValue(k, s) == [name |-> "CreatingValue", key |-> k, s |-> s]
ValueNewLine(k, s) == [name |-> "ValueNewLine", key |-> k, s |-> s]

\* ParseError, and the two ways the function is still running or has
\* returned Ok.
DuplicateKey(k) == [kind |-> "Err", err |-> "DuplicateKey", key |-> k]
NoValueForKey(k) == [kind |-> "Err", err |-> "NoValueForKey", key |-> k]
IncompleteKey(at) == [kind |-> "Err", err |-> "IncompleteKey", at |-> at]
MustEndInNewline == [kind |-> "Err", err |-> "MustEndInNewline"]
Running == [kind |-> "Running"]
Ok(map) == [kind |-> "Ok", map |-> map]

\* A mutation of Insert: the key is never found present.
InsertNeverPresent(map, k, v) ==
    [map |-> Append(map, [key |-> k, value |-> v]), is_some |-> FALSE]

\* IndexMap::insert: a new key is appended, a present key keeps its place
\* and takes the new value; is_some tells whether the key was present.
Insert(map, k, v) ==
    LET present == \E i \in 1..Len(map) : map[i].key = k
    IN  [ map |-> IF present
                  THEN [i \in 1..Len(map) |->
                           IF map[i].key = k THEN [key |-> k, value |-> v]
                           ELSE map[i]]
                  ELSE Append(map, [key |-> k, value |-> v]),
          is_some |-> present ]

\* A mutation of IsContinuationChar: only a space continues a value.
IsContinuationCharSpaceOnly(char) == char = " "

\* The test of the ValueNewLine arm.
IsContinuationChar(char) == char = "\t" \/ char = " "

\* One iteration of the loop of parse_control: the next state, the map, and
\* the early return if there is one.
ParseStep(text, state, char, i, out) ==
    CASE state.name = "CreatingKey" ->
           [ state |-> IF char = ":" THEN SkippingColon(Slice(text, state.s, i))
                       ELSE IF char = "#" THEN SkippingComment
                       ELSE CreatingKey(state.s),
             output |-> out, ret |-> Running ]
      [] state.name = "SkippingColon" ->
           IF char = "\n"
           THEN [ state |-> state, output |-> out, ret |-> IncompleteKey(i) ]
           ELSE [ state |-> CreatingValue(state.key, i),
                  output |-> out, ret |-> Running ]
      [] state.name = "CreatingValue" ->
           [ state |-> IF char = "\n" THEN ValueNewLine(state.key, state.s)
                       ELSE CreatingValue(state.key, state.s),
             output |-> out, ret |-> Running ]
      [] state.name = "ValueNewLine" ->
           IF IsContinuationChar(char)
           THEN [ state |-> CreatingValue(state.key, state.s),
                  output |-> out, ret |-> Running ]
           ELSE LET ins == Insert(out, state.key, Slice(text, state.s, i))
                IN  IF ins.is_some
                    THEN [ state |-> state, output |-> ins.map,
                           ret |-> DuplicateKey(state.key) ]
                    ELSE [ state |-> IF char = "#" THEN SkippingComment
                                     ELSE CreatingKey(i),
                           output |-> ins.map, ret |-> Running ]
      [] state.name = "SkippingComment" ->
           [ state |-> IF char = "\n" THEN SkippingNewlineComment
                       ELSE SkippingComment,
             output |-> out, ret |-> Running ]
      [] state.name = "SkippingNewlineComment" ->
           [ state |-> IF char = "#" THEN SkippingComment
                       ELSE CreatingKey(i),
             output |-> out, ret |-> Running ]

\* A mutation of ParseFinish: an unfinished key at the end of the input is
\* dropped and the map returned.
ParseFinishDropsOpenKey(text, state, i, out) ==
    IF state.name = "ValueNewLine"
    THEN LET ins == Insert(out, state.key, Slice(text, state.s, i))
         IN  IF ins.is_some
             THEN [ output |-> ins.map, ret |-> DuplicateKey(state.key) ]
             ELSE [ output |-> ins.map, ret |-> Ok(ins.map) ]
    ELSE IF state.name = "SkippingColon"
    THEN [ output |-> out, ret |-> NoValueForKey(state.key) ]
    ELSE IF state.name = "CreatingValue"
    THEN [ output |-> out, ret |-> MustEndInNewline ]
    ELSE [ output |-> out, ret |-> Ok(out) ]

\* The match after the loop.
ParseFinish(text, state, i, out) ==
    CASE state.name = "CreatingKey" ->
           [ output |-> out, ret |-> IncompleteKey(state.s) ]
      [] state.name = "SkippingColon" ->
           [ output |-> out, ret |-> NoValueForKey(state.key) ]
      [] state.name = "CreatingValue" ->
           [ output |-> out, ret |-> MustEndInNewline ]
      [] state.name = "ValueNewLine" ->
           LET ins == Insert(out, state.key, Slice(text, state.s, i))
           IN  IF ins.is_some
               THEN [ output |-> ins.map, ret |-> DuplicateKey(state.key) ]
               ELSE [ output |-> ins.map, ret |-> Ok(ins.map) ]
      [] state.name \in {"SkippingComment", "SkippingNewlineComment"} ->
           [ output |-> out, ret |-> Ok(out) ]

\* parse_control from offset i on, in the given state and with the given
\* map: what it returns.
RECURSIVE ParseFrom(_, _, _, _)
ParseFrom(text, state, i, out) ==
    IF i = Len(text) THEN ParseFinish(text, state, i, out).ret
    ELSE LET r == ParseStep(text, state, text[i + 1], i, out)
         IN  IF r.ret # Running THEN r.ret
             ELSE ParseFrom(text, r.state, i + 1, r.output)

\* parse_control
ParseControl(text) == ParseFrom(text, CreatingKey(0), 0, <<>>)

\* The loop body on the next character of the input.
ParseChar ==
    /\ presult = Running
    /\ idx < Len(input)
    /\ LET r == ParseStep(input, pstate, input[idx + 1], idx, output)
       IN  /\ pstate' = r.state
           /\ output' = r.output
           /\ presult' = r.ret
           /\ idx' = IF r.ret = Running THEN idx + 1 ELSE idx
    /\ UNCHANGED <<input, svars, gvars, dvars>>

\* The end of the input.
ParseEnd ==
    /\ presult = Running
    /\ idx = Len(input)
    /\ LET r == ParseFinish(input, pstate, idx, output)
       IN  /\ output' = r.output
           /\ presult' = r.ret
    /\ UNCHANGED <<input, idx, pstate, svars, gvars, dvars>>

ParseInit ==
    /\ ServiceInit
    /\ repogen = "godsvagn-repogen"
    /\ GenIdle
    /\ DebIdle
    /\ input \in Inputs
    /\ idx = 0
    /\ pstate = CreatingKey(0)
    /\ output = <<>>
    /\ presult = Running

ParseNext == ParseChar \/ ParseEnd

ParseSpec == ParseInit /\ [][ParseNext]_vars

\* ------------------------------------------------------------------------
\* Properties of parse_control.  The expected map is read off the lines of
\* the input, not off the state machine.
\* ------------------------------------------------------------------------
\* The lines of a text that ends in a newline, each with its newline.
NewlineOffsets(t) ==
    SelectSeq([i \in 1..Len(t) |-> i], LAMBDA i : t[i] = "\n")

TerminatedLines(t) ==
    LET nl == NewlineOffsets(t)
    IN  [j \in 1..Len(nl) |->
            SubSeq(t, IF j = 1 THEN 1 ELSE nl[j - 1] + 1, nl[j])]

IsContinuationLine(l) == l[1] \in {" ", "\t"}
IsCommentLine(l) == l[1] = "#"

ColonOffsets(l) == { i \in 1..Len(l) : l[i] = ":" }
FirstColon(l) == CHOOSE i \in ColonOffsets(l) : \A j \in ColonOffsets(l) : i <= j
KeyOfLine(l) == SubSeq(l, 1, FirstColon(l) - 1)
RestOfLine(l) == SubSeq(l, FirstColon(l) + 1, Len(l))

\* A field line starts at column zero with a non-empty key that holds no
\* '#', then a ':', then at least one character before the newline.
IsFieldLine(l) ==
    /\ ~IsContinuationLine(l)
    /\ ~IsCommentLine(l)
    /\ ColonOffsets(l) # {}
    /\ KeyOfLine(l) # <<>>
    /\ \A i \in 1..Len(KeyOfLine(l)) : KeyOfLine(l)[i] # "#"
    /\ Len(RestOfLine(l)) >= 2

\* Every line is a field line, a continuation of a field, or a comment
\* line; no comment stands between a field and its continuation; no key
\* occurs twice.
WellFormed(t) ==
    /\ t # <<>>
    /\ t[Len(t)] = "\n"
    /\ LET lines == TerminatedLines(t)
       IN  /\ \A j \in 1..Len(lines) :
                 \/ IsCommentLine(lines[j])
                 \/ IsFieldLine(lines[j])
                 \/ /\ IsContinuationLine(lines[j])
                    /\ j > 1
                    /\ ~IsCommentLine(lines[j - 1])
           /\ \A j, k \in 1..Len(lines) :
                 (/\ j < k
                  /\ IsFieldLine(lines[j])
                  /\ IsFieldLine(lines[k]))
                 => KeyOfLine(lines[j]) # KeyOfLine(lines[k])

RECURSIVE FieldsOfLines(_, _)
FieldsOfLines(lines, acc) ==
    IF lines = <<>> THEN acc
    ELSE LET l == Head(lines)
         IN  IF IsCommentLine(l) THEN FieldsOfLines(Tail(lines), acc)
             ELSE IF IsContinuationLine(l)
             THEN FieldsOfLines(Tail(lines),
                      [acc EXCEPT ![Len(acc)].value = @ \o l])
             ELSE FieldsOfLines(Tail(lines),
                      Append(acc, [key |-> KeyOfLine(l),
                                   value |-> RestOfLine(l)]))

ExpectedFields(t) == FieldsOfLines(TerminatedLines(t), <<>>)

\* C10: for an input whose fields are all well-formed, parse_control returns
\* Ok with one entry per field, in the order of the fields; each key is the
\* raw text before the field's ':', and each value is the raw span from the
\* byte after ':' up to and including the newline that ends the field's last
\* continuation line (a line starting with space or tab).
C10_WellFormedInputParsesInOrder ==
    (presult # Running /\ WellFormed(input))
        => presult = Ok(ExpectedFields(input))

\* A finished parse of a well-formed input of two fields, a and b in that
\* order, one of them with a tab continuation line.
C10_Witness ==
    /\ presult.kind = "Ok"
    /\ WellFormed(input)
    /\ Len(presult.map) = 2
    /\ \E l \in Range(TerminatedLines(input)) : l[1] = "\t"
    /\ presult.map[1].key = <<"a">>
    /\ presult.map[2].key = <<"b">>

\* C11: parse_control returns an error for every input that does not end
\* with a newline character, and that error is MustEndInNewline when the
\* input ends inside a value.
C11_NoTerminalNewlineIsError ==
    (/\ presult # Running
     /\ (input = <<>> \/ input[Len(input)] # "\n"))
        => /\ presult.kind = "Err"
           /\ pstate.name = "CreatingValue" => presult = MustEndInNewline

\* The line structure of a well-formed input, whatever its keys: every line
\* is a field line, a continuation of a field, or a comment line, and no
\* comment stands between a field and its continuation.
LinesWellFormed(t) ==
    /\ t # <<>>
    /\ t[Len(t)] = "\n"
    /\ LET lines == TerminatedLines(t)
       IN  \A j \in 1..Len(lines) :
              \/ IsCommentLine(lines[j])
              \/ IsFieldLine(lines[j])
              \/ /\ IsContinuationLine(lines[j])
                 /\ j > 1
                 /\ ~IsCommentLine(lines[j - 1])

\* The keys of the field lines, in order.
FieldKeys(t) ==
    LET fs == SelectSeq(TerminatedLines(t), IsFieldLine)
    IN  [i \in 1..Len(fs) |-> KeyOfLine(fs[i])]

\* The places of the keys that repeat an earlier key.
Repeats(keys) == { k \in 1..Len(keys) : \E j \in 1..(k - 1) : keys[j] = keys[k] }

\* C12: if the same key text is the key of two otherwise well-formed fields,
\* parse_control fails with DuplicateKey naming that key (the first key that
\* repeats an earlier one) and returns no map; with pairwise distinct keys
\* it does not return DuplicateKey.
C12_DuplicateKeyExactlyOnRepeat ==
    (presult # Running /\ LinesWellFormed(input))
        => LET keys == FieldKeys(input)
               reps == Repeats(keys)
           IN  IF reps # {}
               THEN presult = DuplicateKey(
                        keys[CHOOSE k \in reps : \A j \in reps : k <= j])
               ELSE presult.kind = "Ok"

\* A finished parse of three well-formed fields a, b, b.
C12_Witness ==
    /\ presult = DuplicateKey(<<"b">>)
    /\ LinesWellFormed(input)
    /\ FieldKeys(input) = << <<"a">>, <<"b">>, <<"b">> >>

\* A text cut after its last newline: the terminated lines, and the
\* unterminated rest.
LastNewline(t) ==
    LET nl == NewlineOffsets(t) IN IF nl = <<>> THEN 0 ELSE nl[Len(nl)]

TerminatedPart(t) == SubSeq(t, 1, LastNewline(t))
OpenLine(t) == SubSeq(t, LastNewline(t) + 1, Len(t))

\* The input ends inside a field line that starts at column zero, after
\* nothing or after well-formed lines; the open line holds no '#'.
EndsInOpenFieldLine(t) ==
    /\ OpenLine(t) # <<>>
    /\ OpenLine(t)[1] \notin {" ", "\t", ":"}
    /\ \A i \in 1..Len(OpenLine(t)) : OpenLine(t)[i] # "#"
    /\ TerminatedPart(t) # <<>> => WellFormed(TerminatedPart(t))

\* C13: when the input ends immediately after a key's ':' parse_control
\* fails with NoValueForKey of that key, and when the input ends inside a
\* non-empty key that has no ':' it fails with IncompleteKey (at the offset
\* where the key starts).
C13_OpenKeyErrors ==
    (presult # Running /\ EndsInOpenFieldLine(input))
        => LET open == OpenLine(input)
           IN  /\ (ColonOffsets(open) = {Len(open)})
                      => presult = NoValueForKey(SubSeq(open, 1, Len(open) - 1))
               /\ (ColonOffsets(open) = {})
                      => presult = IncompleteKey(LastNewline(input))

\* A finished parse of an input that ends right after the ':' of key b, after
\* a well-formed field.
C13_Witness ==
    /\ presult = NoValueForKey(<<"b">>)
    /\ EndsInOpenFieldLine(input)
    /\ FieldKeys(TerminatedPart(input)) = << <<"a">> >>

RECURSIVE Concat(_)
Concat(ts) == IF ts = <<>> THEN <<>> ELSE Head(ts) \o Concat(Tail(ts))

\* The input with its comment lines removed.
StripComments(t) ==
    Concat(SelectSeq(TerminatedLines(t), LAMBDA l : ~IsCommentLine(l)))
        \o OpenLine(t)

CommentLines(t) == SelectSeq(TerminatedLines(t), IsCommentLine)

\* C14: comment lines at the start of the file, between fields or after a
\* value's terminating newline are discarded: for a well-formed input with
\* at least one field, parse_control returns the same ordered map as for the
\* input with the comment lines removed.
C14_CommentsDiscarded ==
    (/\ presult # Running
     /\ WellFormed(input)
     /\ FieldKeys(input) # <<>>)
        => /\ presult.kind = "Ok"
           /\ presult = ParseControl(StripComments(input))

\* A finished parse of two fields a and b with a comment line between them.
C14_Witness ==
    /\ presult.kind = "Ok"
    /\ WellFormed(input)
    /\ FieldKeys(input) = << <<"a">>, <<"b">> >>
    /\ IsCommentLine(TerminatedLines(input)[2])
    /\ Len(presult.map) = 2

\* ------------------------------------------------------------------------
\* parsedeb: parse_debfile, get_control, deb_to_control.
\* ------------------------------------------------------------------------
MaxMembers == 2
MaxEntries == 2

\* A mutation of RequiredFieldFromStr: the key is matched as spelled.
RequiredFieldFromStrCaseSensitive(s) ==
    CASE s = <<"Package">> -> "Package"
      [] s = <<"Version">> -> "Version"
      [] s = <<"Architecture">> -> "Architecture"
      [] s = <<"Maintainer">> -> "Maintainer"
      [] s = <<"Description">> -> "Description"
      [] OTHER -> "none"

\* s.to_ascii_lowercase() of a text
LowerText(s) == [i \in 1..Len(s) |-> ToAsciiLowercase(s[i])]

\* RequiredField::from_str: the field, or "none" for Err(()).
RequiredFieldFromStr(s) ==
    CASE LowerText(s) = <<"package">> -> "Package"
      [] LowerText(s) = <<"version">> -> "Version"
      [] LowerText(s) = <<"architecture">> -> "Architecture"
      [] LowerText(s) = <<"maintainer">> -> "Maintainer"
      [] LowerText(s) = <<"description">> -> "Description"
      [] OTHER -> "none"

\* RequiredField::ALL
RequiredFieldAll ==
    <<"Package", "Version", "Architecture", "Maintainer", "Description">>

\* ForbiddenField::from_str: the field by its Display name, or "none".
ForbiddenFieldFromStr(s) ==
    CASE LowerText(s) = <<"filename">> -> "Filename"
      [] LowerText(s) = <<"size">> -> "Size"
      [] LowerText(s) = <<"md5sum">> -> "MD5sum"
      [] LowerText(s) = <<"sha1">> -> "SHA1"
      [] LowerText(s) = <<"sha256">> -> "SHA256"
      [] LowerText(s) = <<"description-md5">> -> "Description-md5"
      [] OTHER -> "none"

\* extract_keys
ExtractKeys(vals) ==
    LET req == [i \in 1..Len(vals) |-> RequiredFieldFromStr(vals[i].key)]
        forb == [i \in 1..Len(vals) |-> ForbiddenFieldFromStr(vals[i].key)]
    IN  [ required |-> SelectSeq(req, LAMBDA f : f # "none"),
          forbidden |-> SelectSeq(forb, LAMBDA f : f # "none"),
          first |-> IF vals = <<>> THEN "none" ELSE req[1] ]

\* parsedeb::Error
NoControlBundle == [kind |-> "Err", err |-> "NoControlBundle"]
NoControl == [kind |-> "Err", err |-> "NoControl"]
DoesNotStartWithPackage == [kind |-> "Err", err |-> "DoesNotStartWithPackage"]
MissingFields(fs) == [kind |-> "Err", err |-> "MissingFields", fields |-> fs]
ForbiddenFields(fs) == [kind |-> "Err", err |-> "ForbiddenFields", fields |-> fs]
InvalidRead == [kind |-> "Err", err |-> "InvalidRead"]
Parse(e) == [kind |-> "Err", err |-> "Parse", cause |-> e]

\* get_control
GetControl(text) ==
    LET parsed == ParseControl(text)
    IN  IF parsed.kind = "Err" THEN Parse(parsed)
        ELSE LET keys == ExtractKeys(parsed.map)
                 missing_fields ==
                     SelectSeq(RequiredFieldAll,
                               LAMBDA req : \A i \in 1..Len(keys.required) :
                                               keys.required[i] # req)
             IN  IF keys.first # "Package" THEN DoesNotStartWithPackage
                 ELSE IF missing_fields # <<>>
                 THEN MissingFields(missing_fields)
                 ELSE IF keys.forbidden # <<>>
                 THEN ForbiddenFields(keys.forbidden)
                 ELSE Ok(parsed.map)

\* --------------------------- generator: reading package files, continued

\* The control files of the package files read whole: the five required
\* fields, followed by nothing, by a further field, by a continuation line,
\* by a continuation line of one space and another, by a comment, or by a
\* blank line and a further field.
ControlTails ==
    { <<>>,
      <<"Homepage", ":", " ", "h", "\n">>,
      <<" ", "more", "\n">>,
      <<" ", "\n", " ", "more", "\n">>,
      <<"#", "c", "\n">>,
      <<"\n", "b", ":", "y", "\n">> }

ControlFileText(name, version, architecture, tail) ==
    <<"Package", ":", " ", name, "\n",
      "Version", ":", " ", version, "\n",
      "Architecture", ":", " ", architecture, "\n",
      "Maintainer", ":", " ", "m", "\n",
      "Description", ":", " ", "d", "\n">> \o tail

\* pack: a key slice as an owned string.
RECURSIVE PackKey(_)
PackKey(k) ==
    IF k = <<>> THEN ""
    ELSE IF Len(k) = 1 THEN k[1]
    ELSE k[1] \o PackKey(Tail(k))

\* deb_to_control, lines 12-17: the map of get_control, packed.
PackMap(map) == [i \in 1..Len(map) |-> <<PackKey(map[i].key), map[i].value>>]

\* get_packages, lines 156-157, on a package file whose control file is
\* given as text: read_package validates it with get_control and the package
\* is pushed on the list; an error of get_control ends get_packages.
ReadControlFile(p, architecture, tail) ==
    LET c == GetControl(ControlFileText("a", "1", architecture, tail))
    IN  /\ runs = <<>>
        /\ Len(packages) < MaxReads
        /\ c.kind = "Ok"
        /\ p \notin Range(start_paths)
        /\ packages' = Append(packages,
                ReadPackageFrom(p, PackMap(c.map), "a", "1", architecture))
        /\ start_paths' = Append(start_paths, p)
        /\ UNCHANGED <<runs, pool, svars, pvars, dvars>>

ReadNext ==
    \/ \E p \in InputPaths, architecture \in PkgArches, d \in DescriptionFields :
        ReadPackageFile(p, architecture, d)
    \/ \E p \in InputPaths, architecture \in PkgArches, tail \in ControlTails :
        ReadControlFile(p, architecture, tail)

ReadSpec == GenInit /\ [][ReadNext]_vars

\* The control files the model draws: the five required fields in their
\* usual order with some of them left out, the Package key in one of two
\* spellings, possibly a leading field, possibly further fields after them,
\* and with or without the terminal newline.
PackageSpellings == {"Package", "PACKAGE"}
LeadKeys == {"Homepage"}
ExtraKeys == <<"Package", "package", "Filename", "SIZE", "Homepage">>

ControlShapes ==
    [ drop : SUBSET Range(RequiredFieldAll),
      spelling : PackageSpellings,
      lead : SUBSET LeadKeys,
      extra : SUBSET Range(ExtraKeys),
      terminated : BOOLEAN ]

ShapeKeys(c) ==
    SelectSeq(<<"Homepage">>, LAMBDA k : k \in c.lead)
    \o [i \in 1..Len(SelectSeq(RequiredFieldAll, LAMBDA k : k \notin c.drop)) |->
           LET k == SelectSeq(RequiredFieldAll, LAMBDA f : f \notin c.drop)[i]
           IN  IF k = "Package" THEN c.spelling ELSE k]
    \o SelectSeq(ExtraKeys, LAMBDA k : k \in c.extra)

FieldLine(k) == <<k, ":", " ", "v", "\n">>

ControlText(c) ==
    LET keys == ShapeKeys(c)
        text == Concat([i \in 1..Len(keys) |-> FieldLine(keys[i])])
    IN  IF c.terminated \/ text = <<>> THEN text
        ELSE SubSeq(text, 1, Len(text) - 1)

ControlTexts == { ControlText(c) : c \in ControlShapes }

\* A control file that validates, and one that does not parse.
GoodControl ==
    ControlText([drop |-> {}, spelling |-> "Package", lead |-> {},
                 extra |-> {}, terminated |-> TRUE])
BadControl == <<"Package", ":">>

\* What tar::Archive::entries() yields for a control tar: entries with a
\* path and data, whose data may fail to read as a string, and errors.
TarEntry(path, data, readable) ==
    [ok |-> TRUE, path |-> path, data |-> data, readable |-> readable]
TarError == [ok |-> FALSE, path |-> "", data |-> <<>>, readable |-> FALSE]

TarItems ==
    { TarEntry("control", GoodControl, TRUE),
      TarEntry("./control", BadControl, TRUE),
      TarEntry("control", GoodControl, FALSE),
      TarEntry("md5sums", <<>>, TRUE),
      TarError }

RECURSIVE Seqs(_, _)
Seqs(S, n) ==
    IF n = 0 THEN { <<>> }
    ELSE LET prev == Seqs(S, n - 1)
         IN  prev \cup { Append(q, x) : q \in prev, x \in S }

Tars == Seqs(TarItems, MaxEntries)

\* What ar::Archive::next_entry() yields: members with an identifier, and
\* errors. A control.tar.zst member also has the outcome of
\* zstd::Decoder::new.
ArMember(identifier, tar, decoder_ok) ==
    [ok |-> TRUE, identifier |-> identifier, tar |-> tar,
     decoder_ok |-> decoder_ok]
ArError == [ok |-> FALSE, identifier |-> "", tar |-> <<>>, decoder_ok |-> FALSE]

ControlTarNames ==
    {"control.tar", "control.tar.gz", "control.tar.xz", "control.tar.zst"}

OtherMembers ==
    { ArMember("debian-binary", <<>>, TRUE),
      ArMember("control.tar.bz2", <<TarEntry("control", GoodControl, TRUE)>>, TRUE),
      ArError }

\* Every tar under two of the names, three tars under the other two.
ControlMembers ==
    { ArMember(id, t, TRUE) : id \in {"control.tar", "control.tar.gz"}, t \in Tars }
    \cup { ArMember(id, t, TRUE) :
             id \in {"control.tar.xz", "control.tar.zst"},
             t \in { <<>>, <<TarError>>,
                     <<TarEntry("md5sums", <<>>, TRUE),
                       TarEntry("./control", GoodControl, TRUE)>> } }
    \cup { ArMember("control.tar.zst", <<TarEntry("control", GoodControl, TRUE)>>, FALSE) }

TailMembers ==
    { ArMember("data.tar.xz", <<>>, TRUE),
      ArMember("control.tar", <<TarEntry("control", BadControl, TRUE)>>, TRUE) }

\* The archives the model draws: up to MaxMembers members that are not a
\* control tar, then possibly a control tar, then possibly one more member;
\* and the usual three-member archive around every control file.
Debs ==
    { pre \o mid \o post :
        pre \in Seqs(OtherMembers, MaxMembers),
        mid \in { <<>> } \cup { <<m>> : m \in ControlMembers },
        post \in { <<>> } \cup { <<m>> : m \in TailMembers } }
    \cup
    { << ArMember("debian-binary", <<>>, TRUE),
         ArMember("control.tar.gz", <<TarEntry("./control", t, TRUE)>>, TRUE),
         ArMember("data.tar.xz", <<>>, TRUE) >> : t \in ControlTexts }

ControlPaths == {"control", "./control"}

\* A mutation of FindControl: the last matching entry is taken.
FindControlLast(tar) ==
    LET hits == { i \in 1..Len(tar) : tar[i].ok /\ tar[i].path \in ControlPaths }
    IN  IF hits = {} THEN 0 ELSE CHOOSE i \in hits : \A j \in hits : j <= i

\* untared.entries()?.find(..): the place of the first item that is Ok and
\* whose path is control or ./control, or 0 for None.
FindControl(tar) ==
    LET hits == { i \in 1..Len(tar) : tar[i].ok /\ tar[i].path \in ControlPaths }
    IN  IF hits = {} THEN 0 ELSE CHOOSE i \in hits : \A j \in hits : i <= j

\* parse_debfile
RECURSIVE ParseDebfile(_)
ParseDebfile(members) ==
    IF members = <<>> THEN NoControlBundle
    ELSE LET entry == Head(members)
         IN  IF ~entry.ok THEN InvalidRead
             ELSE IF entry.identifier \notin ControlTarNames
             THEN ParseDebfile(Tail(members))
             ELSE IF ~entry.decoder_ok THEN InvalidRead
             ELSE LET at == FindControl(entry.tar)
                  IN  IF at = 0 THEN NoControl
                      ELSE IF ~entry.tar[at].readable THEN InvalidRead
                      ELSE [kind |-> "Ok", text |-> entry.tar[at].data]

NotRun == [kind |-> "NotRun"]

\* deb_to_control, first half: parse_debfile(deb)?
ReadArchive ==
    /\ raw = NotRun
    /\ raw' = ParseDebfile(deb)
    /\ UNCHANGED <<deb, control, svars, gvars, pvars>>

\* deb_to_control, second half: get_control(&raw_controlfile)?
ValidateControl ==
    /\ raw # NotRun
    /\ control = NotRun
    /\ control' = IF raw.kind = "Ok" THEN GetControl(raw.text) ELSE raw
    /\ UNCHANGED <<deb, raw, svars, gvars, pvars>>

DebInit ==
    /\ ServiceInit
    /\ repogen = "godsvagn-repogen"
    /\ GenIdle
    /\ ParseIdle
    /\ deb \in Debs
    /\ raw = NotRun
    /\ control = NotRun

DebNext == ReadArchive \/ ValidateControl

DebSpec == DebInit /\ [][DebNext]_vars

\* ------------------------------------------------------------------------
\* Properties of get_control and parse_debfile.
\* ------------------------------------------------------------------------
\* The spellings, among the keys drawn, that equal a field name ignoring
\* ASCII case.
SpellingsOf(name) ==
    CASE name = "Package" -> {<<"Package">>, <<"package">>, <<"PACKAGE">>}
      [] name = "Size" -> {<<"Size">>, <<"SIZE">>}
      [] OTHER -> {<<name>>}

RequiredNames == {"Package", "Version", "Architecture", "Maintainer", "Description"}
ReservedNames == {"Filename", "Size", "MD5sum", "SHA1", "SHA256", "Description-md5"}

KeysOf(map) == [i \in 1..Len(map) |-> map[i].key]

\* The conditions of acceptance, on the keys of a parsed map.
KeysValid(keys) ==
    /\ keys # <<>>
    /\ keys[1] \in SpellingsOf("Package")
    /\ \A r \in RequiredNames : \E i \in 1..Len(keys) : keys[i] \in SpellingsOf(r)
    /\ \A f \in ReservedNames : \A i \in 1..Len(keys) : keys[i] \notin SpellingsOf(f)

\* C15: get_control succeeds if and only if parse_control succeeds, the
\* first key is Package ignoring case, the five required keys are present
\* ignoring case and none of the six reserved keys is present ignoring case;
\* on success it returns the fields of the text with their original key
\* spelling and order.
C15_GetControlIffValid ==
    (control # NotRun /\ raw.kind = "Ok")
        => LET parsed == ParseControl(raw.text)
               valid == /\ parsed.kind = "Ok"
                        /\ KeysValid(KeysOf(parsed.map))
           IN  /\ control.kind = "Ok" <=> valid
               /\ control.kind = "Ok"
                     => /\ control.map = parsed.map
                        /\ control.map = ExpectedFields(raw.text)

\* An accepted control file whose first key is spelled PACKAGE and which has
\* a sixth field.
C15_Witness ==
    /\ control.kind = "Ok"
    /\ control.map[1].key = <<"PACKAGE">>
    /\ Len(control.map) = 6
    /\ control.map[6].key = <<"Homepage">>

\* The field names an error of get_control reports.
Reported(e) ==
    IF e.err \in {"MissingFields", "ForbiddenFields"} THEN Range(e.fields)
    ELSE {}

MissingOf(keys) ==
    { r \in RequiredNames : \A i \in 1..Len(keys) : keys[i] \notin SpellingsOf(r) }
ReservedIn(keys) ==
    { f \in ReservedNames : \E i \in 1..Len(keys) : keys[i] \in SpellingsOf(f) }

\* C16: when validation fails, the error reports every required key that is
\* missing and every reserved key that is present, also when both kinds of
\* violation occur at once.
C16_ErrorAccumulatesEveryViolation ==
    (/\ control # NotRun
     /\ raw.kind = "Ok"
     /\ ParseControl(raw.text).kind = "Ok"
     /\ control.kind = "Err")
        => LET keys == KeysOf(ParseControl(raw.text).map)
           IN  (MissingOf(keys) \cup ReservedIn(keys)) \subseteq Reported(control)

\* An archive that reads without error: no ar or tar error, every decoder
\* starts, every entry's data reads as a string.
ErrorFree(members) ==
    \A i \in 1..Len(members) :
        /\ members[i].ok
        /\ members[i].decoder_ok
        /\ \A j \in 1..Len(members[i].tar) :
              members[i].tar[j].ok /\ members[i].tar[j].readable

First(S) == CHOOSE i \in S : \A j \in S : i <= j

\* C17: for an archive that reads without error, the reader returns
\* NoControlBundle exactly when no ar member is named control.tar,
\* control.tar.gz, control.tar.xz or control.tar.zst; otherwise it returns
\* the content of the first entry of the first such member whose path is
\* exactly control or ./control, or NoControl if there is none; all other
\* members and entries are ignored.
C17_ReaderFindsControl ==
    (raw # NotRun /\ ErrorFree(deb))
        => LET tars == { i \in 1..Len(deb) :
                           deb[i].identifier \in
                               {"control.tar", "control.tar.gz",
                                "control.tar.xz", "control.tar.zst"} }
           IN  IF tars = {} THEN raw = NoControlBundle
               ELSE LET tar == deb[First(tars)].tar
                        hits == { j \in 1..Len(tar) :
                                    tar[j].path \in {"control", "./control"} }
                    IN  IF hits = {} THEN raw = NoControl
                        ELSE raw = [kind |-> "Ok",
                                    text |-> tar[First(hits)].data]

\* An archive with a member before its control tar, whose control tar has an
\* entry before two control entries of different content; the first one is
\* returned.
C17_Witness ==
    /\ raw.kind = "Ok"
    /\ ErrorFree(deb)
    /\ Len(deb) >= 2
    /\ deb[1].identifier = "debian-binary"
    /\ deb[2].identifier = "control.tar.gz"
    /\ Len(deb[2].tar) = 2
    /\ deb[2].tar[1].path = "./control"
    /\ deb[2].tar[2].path = "control"
    /\ raw.text = deb[2].tar[1].data
    /\ raw.text # deb[2].tar[2].data

\* The control tar the reader opens: the first member with a control-tar
\* name, when every member before it reads and its decoder starts; else 0.
OpenedTar(members) ==
    LET tars == { i \in 1..Len(members) :
                    members[i].ok /\ members[i].identifier \in ControlTarNames }
    IN  IF tars = {} THEN 0
        ELSE IF /\ \A i \in 1..First(tars) : members[i].ok
                /\ members[First(tars)].decoder_ok
        THEN First(tars)
        ELSE 0

\* The iteration over the entries of the opened tar meets an error: an
\* error item at or before the first control entry.
MeetsTarError(tar) ==
    \E e \in 1..Len(tar) :
        /\ ~tar[e].ok
        /\ \A j \in 1..(e - 1) : ~(tar[j].ok /\ tar[j].path \in ControlPaths)

\* C18: an error met while iterating the entries of the control tar is
\* returned to the caller as that error, never skipped, never reported as
\* NoControl, never followed by a successful result.
C18_TarErrorPropagates ==
    (/\ raw # NotRun
     /\ OpenedTar(deb) # 0
     /\ MeetsTarError(deb[OpenedTar(deb)].tar))
        => raw = InvalidRead

\* ------------------------------------------------------------------------
\* Properties of the package model and the index writer.
\* ------------------------------------------------------------------------
\* The values of the Filename lines of an index text, in order.
FilenamesOf(index) ==
    LET ls == SelectSeq(LinesOf(index),
                        LAMBDA l : Len(l) >= 4 /\ l[1] = "Filename" /\ l[2] = ":")
    IN  [i \in 1..Len(ls) |-> ls[i][4]]

PoolPath(name, version, architecture) ==
    "pool/main/" \o name \o "_" \o version \o "_" \o architecture \o ".deb"

\* C19: every package the generator built has the path pool/main/ + name +
\* _ + version + _ + architecture + .deb, whatever input file it was read
\* from, and the Filename lines of every Packages index are those paths, one
\* per package of the architecture, in order.
C19_CanonicalPoolPath ==
    /\ \A i \in 1..Len(packages) :
          packages[i].meta.file.path =
              PoolPath(packages[i].name, packages[i].version,
                       packages[i].architecture)
    /\ \A r \in 1..Len(runs) : \A a \in ArchesOf(packages) :
          \E i \in 1..Len(runs[r]) :
             /\ runs[r][i].destination_path = "main/binary-" \o a \o "/Packages"
             /\ FilenamesOf(runs[r][i].data) =
                   LET mine == SelectSeq(packages, LAMBDA q : q.architecture = a)
                   IN  [k \in 1..Len(mine) |->
                           PoolPath(mine[k].name, mine[k].version,
                                    mine[k].architecture)]

\* A run over two packages of one architecture and different names.
C19_Witness ==
    /\ Len(runs) >= 1
    /\ Len(packages) = 2
    /\ packages[1].architecture = packages[2].architecture
    /\ packages[1].name # packages[2].name

\* A value without its leading and trailing whitespace: the span from its
\* first to its last character that is not whitespace.
StripBoth(v) ==
    LET keep == { i \in 1..Len(v) : v[i] \notin {" ", "\t", "\n", "\r"} }
    IN  IF keep = {} THEN <<>>
        ELSE SubSeq(v, CHOOSE i \in keep : \A j \in keep : i <= j,
                       CHOOSE i \in keep : \A j \in keep : j <= i)

\* The stanza of a package: one line per field, then the six derived lines,
\* the last without a newline.
ExpectedStanza(q) ==
    Concat([i \in 1..Len(q.fields) |->
               <<q.fields[i][1], ":", " ">> \o StripBoth(q.fields[i][2])
                   \o <<"\n">>])
    \o <<"Filename", ":", " ", q.meta.file.path, "\n">>
    \o <<"Size", ":", " ", ToString(q.meta.file.size), "\n">>
    \o <<"Description-md5", ":", " ", q.meta.description_md5, "\n">>
    \o <<"MD5sum", ":", " ", q.meta.file.sums.md5, "\n">>
    \o <<"SHA1", ":", " ", q.meta.file.sums.sha1, "\n">>
    \o <<"SHA256", ":", " ", q.meta.file.sums.sha256>>

\* C20: the index writer emits, for each field in stored order, the line
\* key: value with the key as spelled and the value without its leading and
\* trailing whitespace, then Filename, Size, Description-md5, MD5sum, SHA1,
\* SHA256 in that order, each on its own line, with no newline after the
\* SHA256 line: every Packages index is such stanzas, each followed by the
\* two newlines generate_index_files appends.
C20_StanzaLayout ==
    \A r \in 1..Len(runs) : \A a \in ArchesOf(packages) :
        \E i \in 1..Len(runs[r]) :
            /\ runs[r][i].destination_path = "main/binary-" \o a \o "/Packages"
            /\ runs[r][i].data =
                  LET mine == SelectSeq(packages, LAMBDA q : q.architecture = a)
                  IN  Concat([k \in 1..Len(mine) |->
                                 ExpectedStanza(mine[k]) \o <<"\n", "\n">>])

\* A run over a package one of whose values keeps a newline inside after
\* its leading space and trailing newline are removed.
C20_Witness ==
    /\ Len(runs) >= 1
    /\ Len(packages) >= 1
    /\ \E i \in 1..Len(packages[1].fields) :
          LET v == packages[1].fields[i][2]
          IN  /\ v[1] = " "
              /\ v[Len(v)] = "\n"
              /\ "\n" \in Range(StripBoth(v))

\* The six derived fields of a package, as key and value.
DerivedFields(q) ==
    << [key |-> <<"Filename">>, value |-> <<q.meta.file.path>>],
       [key |-> <<"Size">>, value |-> <<ToString(q.meta.file.size)>>],
       [key |-> <<"Description-md5">>, value |-> <<q.meta.description_md5>>],
       [key |-> <<"MD5sum">>, value |-> <<q.meta.file.sums.md5>>],
       [key |-> <<"SHA1">>, value |-> <<q.meta.file.sums.sha1>>],
       [key |-> <<"SHA256">>, value |-> <<q.meta.file.sums.sha256>>] >>

\* The fields of a package with their values trimmed, then the derived ones.
RoundTripFields(q) ==
    [i \in 1..Len(q.fields) |->
        [key |-> <<q.fields[i][1]>>, value |-> StripBoth(q.fields[i][2])]]
    \o DerivedFields(q)

\* C21: parsing the stanza the index writer emits for a package with the
\* control-file parser yields the package's fields in their order with the
\* trimmed values, followed by the six derived fields.
C21_StanzaRoundTrip ==
    Len(runs) >= 1 =>
        \A i \in 1..Len(packages) :
            ParseControl(WriteIntoPackages(packages[i]))
                = Ok(RoundTripFields(packages[i]))

\* ------------------------------------------------ Release text: layout

\* The architecture an index path belongs to.
ArchOfPath(path) ==
    CHOOSE a \in PkgArches :
        \E ext \in {"", ".gz", ".xz"} : path = "main/binary-" \o a \o "/Packages" \o ext

\* The index files of a run, in the order the run returned them.
IndexFilesOf(run) == SelectSeq(run, IsIndexFile)

\* The words of a line, read at its single spaces.
RECURSIVE WordsOf(_)
WordsOf(l) ==
    IF l = <<>> THEN <<>>
    ELSE IF Len(l) = 1 THEN <<l[1]>>
    ELSE IF l[2] = " " THEN <<l[1]>> \o WordsOf(SubSeq(l, 3, Len(l)))
    ELSE <<"?">>

\* The eleven leading lines of a Release text for the metadata of the runs,
\* the Architectures line left out (it is the seventh).
ReleaseHead ==
    << <<"Origin", ":", " ", ReleaseConfig.origin>>,
       <<"Label", ":", " ", ReleaseConfig.label>>,
       <<"Suite", ":", " ", ReleaseConfig.suite>>,
       <<"Version", ":", " ", ReleaseConfig.version>>,
       <<"Codename", ":", " ", ReleaseConfig.codename>>,
       <<"Date", ":", " ", ReleaseConfig.date>>,
       <<"Architectures", ":", " ">>,
       <<"Components", ":", " ", "main">>,
       <<"Acquire-By-Hash", ":", " ", "no">>,
       <<"Changelogs", ":", " ", "no">>,
       <<"Snapshots", ":", " ", "no">> >>

SectionOrder == <<"md5", "sha1", "sha256">>

\* C22: the Release text is the lines Origin, Label, Suite, Version,
\* Codename, Date, Architectures, Components: main, Acquire-By-Hash: no,
\* Changelogs: no, Snapshots: no in that order, then the sections MD5Sum:,
\* SHA1: and SHA256: in that order and nothing else; every section line is
\* one space, the digest, one space, the decimal size, one space and the
\* path of an index file; the Architectures line has one space-separated
\* entry per index file in the order of production, so each architecture
\* three times; the configured description does not occur in the text.
C22_ReleaseLayout ==
    \A r \in 1..Len(runs) :
        LET release == runs[r][ReleaseOf(runs[r])].data
            ls == LinesOf(release)
            files == IndexFilesOf(runs[r])
            n == Len(files)
            arches == WordsOf(SubSeq(ls[7], 4, Len(ls[7])))
        IN  /\ release[Len(release)] = "\n"
            /\ Len(ls) = 11 + 3 * (n + 1)
            /\ \A i \in (1..11) \ {7} : ls[i] = ReleaseHead[i]
            /\ SubSeq(ls[7], 1, 3) = ReleaseHead[7]
            /\ arches = [k \in 1..n |-> ArchOfPath(files[k].destination_path)]
            /\ \A a \in ArchesOf(packages) :
                    Cardinality({k \in 1..Len(arches) : arches[k] = a}) = 3
            /\ \A s \in 1..3 :
                LET h == 11 + (s - 1) * (n + 1) + 1
                IN  /\ ls[h] = <<SectionHeader[SectionOrder[s]], ":">>
                    /\ \A k \in 1..n :
                        ls[h + k] =
                            <<" ", Digest(SectionOrder[s], files[k].data), " ",
                              ToString(Len(files[k].data)), " ",
                              files[k].destination_path>>
            /\ \A i \in 1..Len(release) : release[i] # ReleaseConfig.description

\* A run over packages of two architectures has returned a Release text
\* whose Architectures line has six entries.
C22_Witness ==
    /\ Len(runs) >= 1
    /\ Cardinality(ArchesOf(packages)) = 2
    /\ Len(WordsOf(SubSeq(LinesOf(runs[1][ReleaseOf(runs[1])].data)[7], 4,
                           Len(LinesOf(runs[1][ReleaseOf(runs[1])].data)[7])))) = 6

\* ------------------------------------------ service: failing regeneration

ControlAccepted(u) == arch[u].valid /\ tmpLen[u] >= arch[u].ctl

\* The name the claim gives the stored file of upload u.
StoredName(u) ==
    arch[u].architecture \o "/" \o arch[u].package \o "_" \o arch[u].version
        \o "_" \o arch[u].architecture \o ".deb"

\* C24: every file of the deb directory was created by an upload whose
\* control file was extracted, parsed and validated, and its path is
\* {architecture}/{name}_{version}_{architecture}.deb of those fields; an
\* upload whose extraction, parsing or validation failed has no file of its
\* own in the deb directory.
C24_OnlyValidatedUploadsStored ==
    /\ \A p \in DebPaths :
        Exists(debDir[p]) =>
            /\ debDir[p].by \in Uploads
            /\ ControlAccepted(debDir[p].by)
            /\ p = StoredName(debDir[p].by)
    /\ \A u \in Uploads :
        outVal[u] = "DebParse" => \A p \in DebPaths : debDir[p].by # u

\* One upload was stored under its canonical name and the other failed to
\* parse and left no file.
C24_Witness ==
    \E u, v \in Uploads :
        /\ resp[u] = "Ok"
        /\ debDir[StoredName(u)] = [by |-> u, len |-> arch[u].n]
        /\ resp[v] = "DebParse"
        /\ ~arch[v].valid
        /\ \A p \in DebPaths : debDir[p].by # v

\* --------------------------------------------- parser: '#' and blank lines

\* The input begins with a key character and has a '#' before its first
\* colon: a '#' after a non-empty key prefix.
HashInFirstKey ==
    /\ input # <<>>
    /\ input[1] \notin {"#", ":", "\n", " ", "\t"}
    /\ \E h \in 2..Len(input) :
        /\ input[h] = "#"
        /\ \A j \in 1..(h - 1) : input[j] \notin {":", "#"}

\* C25: a '#' met in the key state after a non-empty key prefix does not
\* start a comment, and a successful parse of an input whose first key has
\* such a '#' returns that key, prefix included, as its first key.
C25_HashInsideKeyKeepsKey ==
    /\ (/\ HashInFirstKey
        /\ pstate.name = "SkippingComment"
        /\ output = <<>>)
        => \E j \in 1..idx : input[j] = ":"
    /\ (presult.kind = "Ok" /\ HashInFirstKey)
        => /\ Len(presult.map) >= 1
           /\ "#" \in Range(presult.map[1].key)
           /\ presult.map[1].key = SubSeq(input, 1, Len(presult.map[1].key))

\* C26: no key of a map parse_control returns contains a newline.
C26_NoNewlineInKey ==
    presult.kind = "Ok" =>
        \A i \in 1..Len(presult.map) : "\n" \notin Range(presult.map[i].key)

\* ------------------------------------------------ generator: Description-md5

\* The Description fields of a field list, the key matched ignoring case.
DescriptionsOf(fields) ==
    SelectSeq(fields, LAMBDA f : f[1] \in DescriptionKeys)

\* C27: the description_md5 of a package read is the MD5 of the bytes of its
\* raw Description value without the first byte, and it is the MD5 of the
\* empty string only when the package has no Description field.
C27_DescriptionMd5SkipsOneByte ==
    \A i \in 1..Len(packages) :
        LET ds == DescriptionsOf(packages[i].fields)
            md5 == packages[i].meta.description_md5
        IN  /\ ds # <<>> => md5 = Digest("md5", Tail(Utf8Bytes(ds[1][2])))
            /\ md5 = Digest("md5", <<>>) <=> ds = <<>>

\* ------------------------------------------------ service: upload progress

\* The writer thread waits for more data: it is in its receive loop, the
\* channel is empty and a sender is alive.
WriterWaitsForData(u) == wpc[u] = "recv" /\ chan[u] = 0 /\ txAlive[u]

\* C28: the handler has dropped the sender whenever it awaits the writer's
\* result or has returned, so in no state does it await the result while the
\* writer waits for more data; the writer's result, once sent, is not sent
\* again; a send never waits forever, even on a full channel or after the
\* writer dropped the receiver; and once the body stream has ended or failed
\* the writer thread exits with its result sent and an awaiting handler
\* answers.
C28_UploadTerminates ==
    /\ [](hpc[1] \in {"await", "done"} => ~txAlive[1])
    /\ [](~(hpc[1] = "await" /\ WriterWaitsForData(1)))
    /\ [][outVal[1] # "none" => outVal'[1] = outVal[1]]_vars
    /\ (hpc[1] = "send") ~> (hpc[1] # "send")
    /\ (hpc[1] = "await") ~> (hpc[1] = "done" /\ resp[1] # "none")
    /\ (hpc[1] \in {"await", "done"}) ~> (wpc[1] = "exit" /\ outVal[1] # "none")

\* The handler holds the fifty-first chunk while the channel holds fifty.
C28_Witness ==
    /\ hpc[1] = "send"
    /\ chan[1] = ChannelCapacity
    /\ rxAlive[1]

\* ------------------------------------------- service: stored files are kept

\* Upload u has created its destination file.
Created(u) == wpc[u] = "copy" \/ outVal[u] = "Ok"

\* C29: a file of the deb directory keeps its creator, and its bytes change
\* only in the step in which its creator copies the upload into it; an
\* upload that found its destination present has the result AlreadyExists,
\* answered as success exactly when ignore_exists is set, and has no file of
\* its own; of two uploads with the same destination path at most one has
\* created the file.
C29_StoredFilesNeverModified ==
    [][ /\ \A p \in DebPaths :
            Exists(debDir[p]) =>
                /\ debDir'[p].by = debDir[p].by
                /\ debDir'[p] # debDir[p] =>
                    /\ wpc[debDir[p].by] = "copy"
                    /\ wpc'[debDir[p].by] = "exit"
                    /\ p = StoredName(debDir[p].by)
        /\ \A u \in Uploads :
            /\ (wpc[u] = "open" /\ wpc'[u] # "open" /\ Exists(debDir[StoredName(u)]))
                => (outVal'[u] = "AlreadyExists" /\ debDir' = debDir)
            /\ (outVal'[u] = "AlreadyExists" /\ hpc[u] = "await" /\ hpc'[u] = "done")
                => resp'[u] = (IF arch'[u].ignore_exists THEN "Ok"
                               ELSE "AlreadyExists")
            /\ outVal'[u] = "AlreadyExists"
                => \A p \in DebPaths : debDir'[p].by # u
        /\ \A u, v \in Uploads :
            (/\ u # v
             /\ hpc'[u] # "idle"
             /\ hpc'[v] # "idle"
             /\ StoredName(u)' = StoredName(v)')
                => ~(Created(u)' /\ Created(v)')
      ]_vars

\* Two uploads of the same package: the first is stored whole, the second
\* found it present and was answered as success for its ignore_exists.
C29_Witness ==
    \E u, v \in Uploads :
        /\ u # v
        /\ StoredName(u) = StoredName(v)
        /\ debDir[StoredName(u)] = [by |-> u, len |-> arch[u].n]
        /\ outVal[v] = "AlreadyExists"
        /\ arch[v].ignore_exists
        /\ resp[v] = "Ok"

\* ---------------------------------------------- validation: repeated keys

\* C30: the map get_control returns has no two keys that are equal ignoring
\* ASCII case.
C30_NoCaseInsensitiveRepeat ==
    control.kind = "Ok" =>
        \A i, j \in 1..Len(control.map) :
            i # j => LowerText(control.map[i].key) # LowerText(control.map[j].key)

\* ------------------------------------------------ index: stanza boundaries

\* The key a blank line in front of the field line b:y leaves in the map.
BlankLedKey == <<"\n", "b">>

\* The characters of a written text: a key written as one string is read as
\* its characters.
RECURSIVE CharsOf(_)
CharsOf(t) ==
    IF t = <<>> THEN <<>>
    ELSE (IF Head(t) = PackKey(BlankLedKey) THEN BlankLedKey ELSE <<Head(t)>>)
            \o CharsOf(Tail(t))

\* A text has an empty line: it begins with a newline or has two in a row.
HasEmptyLine(t) ==
    /\ t # <<>>
    /\ \/ t[1] = "\n"
       \/ \E i \in 1..(Len(t) - 1) : t[i] = "\n" /\ t[i + 1] = "\n"

\* C31: the stanza the index writer emits for a package whose control file
\* get_control accepted has no empty line.
C31_StanzaHasNoEmptyLine ==
    \A i \in 1..Len(packages) :
        ~HasEmptyLine(CharsOf(WriteIntoPackages(packages[i])))

\* ------------------------------------------------ generator: pool files

\* The value a stanza gives for a key: what stands between "key: " and the
\* end of that line.
StanzaValue(st, key) ==
    LET at == CHOOSE i \in 1..Len(st) :
                  /\ st[i] = key
                  /\ i = 1 \/ st[i - 1] = "\n"
    IN  st[at + 3]

\* C32: after a run, the stanza of every package names a Filename that is a
\* file of the output pool, and that file has the Size and the MD5sum, SHA1
\* and SHA256 the stanza lists.
C32_StanzaMatchesPoolFile ==
    Len(runs) >= 1 =>
        \A i \in 1..Len(packages) :
            LET st == WriteIntoPackages(packages[i])
                name == StanzaValue(st, "Filename")
            IN  /\ name \in DOMAIN pool
                /\ StanzaValue(st, "Size") = ToString(Len(pool[name]))
                /\ StanzaValue(st, "MD5sum") = Digest("md5", pool[name])
                /\ StanzaValue(st, "SHA1") = Digest("sha1", pool[name])
                /\ StanzaValue(st, "SHA256") = Digest("sha256", pool[name])
====
